---- MODULE Spec2Model ----
(***************************************************************************)
(* Variational-inference loss estimators of numpyro/infer/elbo.py.         *)
(*                                                                         *)
(* An estimator instance is constructed, then loss and                     *)
(* loss_with_mutable_state are called on it with a random key, the         *)
(* caller's parameter table, a model program and a guide program.          *)
(*                                                                         *)
(* Numbers: log-densities are integers.  A mean over particles is the      *)
(* exact fraction [num, den].  Random keys are sequences of naturals and   *)
(* random.split(key, n) appends the child index.                           *)
(***************************************************************************)
EXTENDS Integers, Sequences, FiniteSets, TLC

VARIABLES est, ctor, param_map, call, mft, summed, graph, etrace, optim, multi, mfp,
          renyi, part, patched, enumc, ecost

vars == <<est, ctor, param_map, call, mft, summed, graph, etrace, optim, multi, mfp,
          renyi, part, patched, enumc, ecost>>

\* the estimator and its caller; the MultiFrameTensor accumulator
elboVars == <<est, ctor, param_map, call>>

mftVars == <<mft, summed>>

\* the objects checked on their own, next to the estimator
unitVars == <<mft, summed, graph, etrace, optim, multi, mfp, renyi, part,
              patched, enumc, ecost>>

(***************************************************************************)
(* Bounds of the model.                                                    *)
(***************************************************************************)
MaxParticles == 2

NumTopKeys == 2

NumVals == 3

\* the accumulator: items added in all, and the first element of a tensor
MaxItems == 2

MaxSeed == 1

\* the optimizer: calls of eval_and_stable_update
MaxSteps == 2

(***************************************************************************)
(* Python values and containers.                                           *)
(***************************************************************************)
EmptyDict == [n \in {} |-> 0]

Get(d, n, dflt) == IF n \in DOMAIN d THEN d[n] ELSE dflt

Update(d, e) ==
    [n \in (DOMAIN d) \cup (DOMAIN e) |-> IF n \in DOMAIN e THEN e[n] ELSE d[n]]

RECURSIVE SeqSum(_)
SeqSum(s) == IF s = <<>> THEN 0 ELSE Head(s) + SeqSum(Tail(s))

RECURSIVE SetSum(_, _)
SetSum(f, S) ==
    IF S = {} THEN 0
    ELSE LET x == CHOOSE y \in S : TRUE IN f[x] + SetSum(f, S \ {x})

Array(x) == [kind |-> "array", v |-> x]

Dict(f) == [kind |-> "dict", v |-> f]

NoValue == [kind |-> "none"]

Frac(n, d) == [num |-> n, den |-> d]

\* jax.tree.map over a scalar leaf or a name-keyed mapping of leaves
tree_map(F(_), t) ==
    IF t.kind = "array" THEN Array(F(t.v))
    ELSE IF t.kind = "dict" THEN Dict([n \in DOMAIN t.v |-> F(t.v[n])])
    ELSE t

\* a value computed once and named in Body, as a local variable is
With(v, Body(_)) == Body(v)

\* the stacked output of a particle map: leaf -> sequence over particles
tree_stack(ts) ==
    IF ts[1].kind = "array" THEN Array([i \in 1..Len(ts) |-> ts[i].v])
    ELSE IF ts[1].kind = "dict"
         THEN Dict([n \in DOMAIN ts[1].v |-> [i \in 1..Len(ts) |-> ts[i].v[n]]])
         ELSE ts[1]

jnp_negative(x) == Frac(-x, 1)

jnp_mean(xs) == Frac(SeqSum(xs), Len(xs))

\* mutants of neg_mean: the sum is not divided; only the first particle counts
neg_sum(xs) == Frac(-SeqSum(xs), 1)

neg_first(xs) == Frac(-(xs[1] * Len(xs)), Len(xs))

\* elbo.py 309: lambda x: -jnp.mean(x)
neg_mean(xs) == LET m == jnp_mean(xs) IN Frac(-m.num, m.den)

(***************************************************************************)
(* Random keys.                                                            *)
(***************************************************************************)
TopKeys == {<<k>> : k \in 0..(NumTopKeys - 1)}

\* mutant of split: a generator state advanced by earlier calls
split_hidden(key, n) ==
    [i \in 1..n |-> Append(key, i + (IF call.op = "none" THEN 0 ELSE n))]

\* jax.random.split
split(key, n) == [i \in 1..n |-> Append(key, i)]

RECURSIVE KeyHash(_)
KeyHash(key) ==
    IF key = <<>> THEN 0 ELSE Len(key) * Head(key) + KeyHash(Tail(key))

NameCode(name) ==
    CASE name = "z" -> 0
      [] name = "w" -> 1
      [] name = "x" -> 2
      [] OTHER -> 3

\* the pseudo-random draw of element i of site `name` under `key`
Draw(key, name, i) == (KeyHash(key) + NameCode(name) + i) % NumVals

(***************************************************************************)
(* Sampling programs: a program is the sequence of its sites.              *)
(***************************************************************************)
SampleSite(name, obs, aux, w, shape, kl) ==
    [name |-> name, type |-> "sample", is_observed |-> obs,
     is_auxiliary |-> aux, w |-> w, shape |-> shape, kl |-> kl, scale |-> 1]

\* the site under handlers.scale(scale=k)
Scaled(site, k) == [site EXCEPT !.scale = k]

MutableSite(name, init) ==
    [name |-> name, type |-> "mutable", is_observed |-> FALSE,
     is_auxiliary |-> FALSE, w |-> init, shape |-> <<>>, kl |-> FALSE, scale |-> 1]

ParamSite(name, init) ==
    [name |-> name, type |-> "param", is_observed |-> FALSE,
     is_auxiliary |-> FALSE, w |-> init, shape |-> <<>>, kl |-> FALSE, scale |-> 1]

Models ==
    << \* latent z, observed x
       << SampleSite("z", FALSE, FALSE, 1, <<2>>, TRUE),
          SampleSite("x", TRUE, FALSE, 2, <<>>, TRUE) >>,
       \* a mutable site in the model
       << MutableSite("m", 4), SampleSite("z", FALSE, FALSE, 0, <<2>>, FALSE),
          SampleSite("x", TRUE, FALSE, 1, <<>>, TRUE) >>,
       \* observations only
       << ParamSite("loc", 0), SampleSite("x", TRUE, FALSE, 1, <<>>, TRUE) >>,
       \* no sample site
       << ParamSite("loc", 0) >> >>

Guides ==
    << << ParamSite("loc", 0), SampleSite("z", FALSE, FALSE, 0, <<2>>, TRUE) >>,
       \* guide-only sample site w
       << SampleSite("z", FALSE, FALSE, 1, <<2>>, TRUE),
          SampleSite("w", FALSE, FALSE, 1, <<2>>, TRUE) >>,
       \* guide-only auxiliary sample site w, declared before z
       << SampleSite("w", FALSE, TRUE, 1, <<2>>, TRUE),
          SampleSite("z", FALSE, FALSE, 2, <<2>>, TRUE) >>,
       \* a mutable site in the guide
       << MutableSite("g", 3), SampleSite("z", FALSE, FALSE, 0, <<1>>, TRUE) >>,
       \* no sample site
       << ParamSite("loc", 0) >> >>

ParamMaps ==
    { [n \in {"loc"} |-> 0], [n \in {"loc", "g"} |-> 1] }

Size(shape) == IF shape = <<>> THEN 1 ELSE shape[1]

\* log-density of a sample site at a value (elementwise, then summed)
log_prob(site, value, params) ==
    SeqSum([i \in 1..Len(value) |-> site.w + Get(params, "loc", 0) - value[i]])

\* trace(substitute(seed(program, key), data)).get_trace(): `forced` holds
\* the values supplied by replay/substitute for sample sites
get_trace(program, key, forced, params) ==
    [j \in 1..Len(program) |->
        LET s == program[j] IN
        IF s.type = "sample"
        THEN LET value ==
                     IF s.is_observed THEN [i \in 1..Size(s.shape) |-> 0]
                     ELSE IF s.name \in DOMAIN forced THEN forced[s.name].value
                     ELSE [i \in 1..Size(s.shape) |-> Draw(key, s.name, i)]
                 shape ==
                     IF (~s.is_observed) /\ s.name \in DOMAIN forced
                     THEN forced[s.name].shape ELSE s.shape
             IN [name |-> s.name, type |-> s.type, is_observed |-> s.is_observed,
                 is_auxiliary |-> s.is_auxiliary, value |-> value, shape |-> shape,
                 fn |-> [w |-> s.w, kl |-> s.kl],
                 log_prob |-> log_prob(s, value, params), scale |-> s.scale]
        ELSE [name |-> s.name, type |-> s.type, is_observed |-> FALSE,
              is_auxiliary |-> FALSE, value |-> <<Get(params, s.name, s.w)>>,
              shape |-> <<>>, fn |-> [w |-> s.w, kl |-> FALSE], log_prob |-> 0,
              scale |-> 1]]

SitesOf(tr, type) == {j \in 1..Len(tr) : tr[j].type = type}

NamesOf(tr, type) == {tr[j].name : j \in SitesOf(tr, type)}

TraceNames(tr) == {tr[j].name : j \in 1..Len(tr)}

SiteAt(tr, name) == tr[CHOOSE j \in 1..Len(tr) : tr[j].name = name]

\* numpyro.infer.util.compute_log_probs: site name -> summed log-density
compute_log_probs(tr) ==
    [n \in NamesOf(tr, "sample") |-> SiteAt(tr, n).scale * SiteAt(tr, n).log_prob]

\* {name: site["value"] for sites of type "mutable"}
mutable_sites(tr) ==
    [n \in NamesOf(tr, "mutable") |-> SiteAt(tr, n).value[1]]

\* the sample sites of the guide trace a replayed model reuses
replay_values(tr) ==
    [n \in NamesOf(tr, "sample") |->
        [value |-> SiteAt(tr, n).value, shape |-> SiteAt(tr, n).shape]]

\* numpyro.util.check_model_guide_match: latent model sites and
\* non-auxiliary guide sites must correspond
check_model_guide_match(model_trace, guide_trace) ==
    LET guide_vars == {guide_trace[j].name : j \in
                          {i \in SitesOf(guide_trace, "sample") : ~guide_trace[i].is_observed}}
        aux_vars == {guide_trace[j].name : j \in
                          {i \in SitesOf(guide_trace, "sample") : guide_trace[i].is_auxiliary}}
        model_vars == {model_trace[j].name : j \in
                          {i \in SitesOf(model_trace, "sample") : ~model_trace[i].is_observed}}
    IN (guide_vars \subseteq (model_vars \cup aux_vars)) /\ (model_vars \subseteq guide_vars)

(***************************************************************************)
(* ELBO.__init__ and the subclasses' constructors.                         *)
(***************************************************************************)
PyTrue == [t |-> "bool", v |-> 1]

PyFalse == [t |-> "bool", v |-> 0]

PyCallable == [t |-> "callable", v |-> 0]

VectorizeValues ==
    {PyTrue, PyFalse, PyCallable, [t |-> "int", v |-> 1], [t |-> "int", v |-> 0],
     [t |-> "NoneType", v |-> 0]}

Inf == -1

NoEst == [cls |-> "none"]

\* mutant: `== True` / `== False` in place of `is True` / `is False`
_assign_vectorize_particles_fn_eq(vectorize_particles) ==
    IF vectorize_particles.t = "callable" THEN "callable"
    ELSE IF vectorize_particles.t \in {"bool", "int"} /\ vectorize_particles.v = 1
    THEN "_apply_vmap"
    ELSE IF vectorize_particles.t \in {"bool", "int"} /\ vectorize_particles.v = 0
    THEN "jax.lax.map"
    ELSE "ValueError"

\* elbo.py 84-95
_assign_vectorize_particles_fn(vectorize_particles) ==
    IF vectorize_particles.t = "callable" THEN "callable"
    ELSE IF vectorize_particles = PyTrue THEN "_apply_vmap"
    ELSE IF vectorize_particles = PyFalse THEN "jax.lax.map"
    ELSE "ValueError"

\* the instance left by ELBO.__init__ (a raise leaves no instance)
ELBO_init(cls, num_particles, vectorize_particles, extra) ==
    LET fn == _assign_vectorize_particles_fn(vectorize_particles) IN
    IF fn = "ValueError" THEN NoEst
    ELSE [cls |-> cls, num_particles |-> num_particles,
          vectorize_particles |-> vectorize_particles,
          vectorize_particles_fn |-> fn,
          multi_sample_guide |-> extra.multi_sample_guide,
          sum_sites |-> extra.sum_sites,
          alpha |-> extra.alpha,
          max_plate_nesting |-> extra.max_plate_nesting]

Extra(msg, ss, alpha, mpn) ==
    [multi_sample_guide |-> msg, sum_sites |-> ss, alpha |-> alpha,
     max_plate_nesting |-> mpn]

Trace_ELBO_init(num_particles, vectorize_particles, multi_sample_guide, sum_sites) ==
    ELBO_init("Trace_ELBO", num_particles, vectorize_particles,
              Extra(multi_sample_guide, sum_sites, 0, 0))

(***************************************************************************)
(* Results of one particle and of one call.                                *)
(***************************************************************************)
NoneState == [isNone |-> TRUE, d |-> EmptyDict]

SomeState(d) == [isNone |-> FALSE, d |-> d]

\* the per-site log-densities a particle combined
NoTerms == [model |-> EmptyDict, guide |-> EmptyDict]

\* a particle that raised `exc`
Raised(exc, pm, mpn) ==
    [raised |-> exc, elbo |-> NoValue, mutable_state |-> NoneState,
     warned |-> {}, param_map |-> pm, max_plate_nesting |-> mpn, terms |-> NoTerms]

Returned(elbo, ms, warned, pm, mpn) ==
    [raised |-> "none", elbo |-> elbo, mutable_state |-> ms,
     warned |-> warned, param_map |-> pm, max_plate_nesting |-> mpn, terms |-> NoTerms]

\* mutant of dict_copy: the caller's dict itself
dict_alias(d) == [obj |-> "caller", val |-> d]

\* dict.copy(): a fresh object holding the same items
dict_copy(d) == [obj |-> "fresh", val |-> d]

\* what the caller's dict holds after `params.update(...)` on `params`
caller_dict(pm, params, updated) == IF params.obj = "fresh" THEN pm ELSE updated

\* self.vectorize_particles_fn(fn, keys): vmap and lax.map return the
\* particles in key order, a user-supplied map in an order of its own
vectorize_particles_fn(self, results, perm) ==
    IF self.vectorize_particles_fn = "callable"
    THEN [i \in 1..Len(results) |-> results[perm[i]]]
    ELSE results

Perms(n) == {p \in [1..n -> 1..n] : \A i, j \in 1..n : p[i] = p[j] => i = j}

FirstRaised(rs) ==
    LET bad == {i \in 1..Len(rs) : rs[i].raised # "none"} IN
    IF bad = {} THEN "none"
    ELSE rs[CHOOSE i \in bad : \A j \in bad : i <= j].raised

AllWarned(rs) == UNION {rs[i].warned : i \in 1..Len(rs)}

CallRaised(exc, pm, mpn, pkeys) ==
    [raised |-> exc, loss |-> NoValue, mutable_state |-> NoneState,
     warned |-> {}, param_map |-> pm, max_plate_nesting |-> mpn,
     pkeys |-> pkeys, halves |-> [i \in 1..Len(pkeys) |-> split(pkeys[i], 2)],
     elbos |-> <<>>, terms |-> <<>>]

CallReturned(loss, ms, pm, pkeys, rs) ==
    [raised |-> "none", loss |-> loss, mutable_state |-> ms,
     warned |-> AllWarned(rs), param_map |-> pm,
     max_plate_nesting |-> rs[1].max_plate_nesting,
     pkeys |-> pkeys, halves |-> [i \in 1..Len(pkeys) |-> split(pkeys[i], 2)],
     elbos |-> [i \in 1..Len(rs) |-> rs[i].elbo],
     terms |-> [i \in 1..Len(rs) |-> rs[i].terms]]

\* elbo.py 309: jax.tree.map(lambda x: -jnp.mean(x), elbos)
particles_mean(elbos) == tree_map(neg_mean, tree_stack(elbos))

(***************************************************************************)
(* Trace_ELBO.                                                             *)
(***************************************************************************)
\* mutant: only the names both sides have
Trace_elbo_particle_common(self, model_log_probs, guide_log_probs) ==
    LET common == (DOMAIN model_log_probs) \cap (DOMAIN guide_log_probs)
        _elbo_particle ==
            [name \in common |-> model_log_probs[name] - guide_log_probs[name]]
    IN IF self.sum_sites THEN Array(SetSum(_elbo_particle, common))
       ELSE Dict(_elbo_particle)

\* elbo.py 272-285: log p(z) - log q(z) over the union of the site names
Trace_elbo_particle(self, model_log_probs, guide_log_probs) ==
    LET union == (DOMAIN model_log_probs) \cup (DOMAIN guide_log_probs)
        _elbo_particle ==
            [name \in union |->
                Get(model_log_probs, name, 0) - Get(guide_log_probs, name, 0)]
    IN IF self.sum_sites THEN Array(SetSum(_elbo_particle, union))
       ELSE Dict(_elbo_particle)

\* mutant: the mutable state is returned whatever the number of particles
mutable_return_always(self, elbo_particle, mutable_params, pm) ==
    IF DOMAIN mutable_params # {}
    THEN Returned(elbo_particle, SomeState(mutable_params), {}, pm,
                  self.max_plate_nesting)
    ELSE Returned(elbo_particle, NoneState, {}, pm, self.max_plate_nesting)

\* elbo.py 287-293 (and 453-459): what a particle returns
mutable_return(self, elbo_particle, mutable_params, pm) ==
    IF DOMAIN mutable_params # {}
    THEN IF self.num_particles = 1
         THEN Returned(elbo_particle, SomeState(mutable_params), {}, pm,
                       self.max_plate_nesting)
         ELSE Returned(elbo_particle, NoneState, {"mutable_ignored"}, pm,
                       self.max_plate_nesting)
    ELSE Returned(elbo_particle, NoneState, {}, pm, self.max_plate_nesting)

\* mutant of first_sample_site: the last sample site of the trace
last_sample_site(guide_trace) ==
    guide_trace[CHOOSE j \in SitesOf(guide_trace, "sample") :
                    \A k \in SitesOf(guide_trace, "sample") : j >= k]

\* elbo.py 239-242: the site the loop stops at
first_sample_site(guide_trace) ==
    guide_trace[CHOOSE j \in SitesOf(guide_trace, "sample") :
                    \A k \in SitesOf(guide_trace, "sample") : j <= k]

\* the branch left by an exception, the model not evaluated
Multi_raised(exc, num_guide_samples) ==
    [raised |-> exc, log_probs |-> EmptyDict,
     num_guide_samples |-> num_guide_samples, model_runs |-> 0]

\* elbo.py 221-255: the model evaluated once per guide sample
Trace_multi_sample_log_probs(model, guide_trace, model_seed, params) ==
    LET samples == SitesOf(guide_trace, "sample") IN
    IF samples = {} THEN Multi_raised("ValueError", 0)
    ELSE
    LET first == first_sample_site(guide_trace) IN
    IF first.shape = <<>> THEN Multi_raised("IndexError", 0)
    ELSE
    LET num_guide_samples == first.shape[1]
        seeds == split(model_seed, num_guide_samples)
        latents == samples \cup SitesOf(guide_trace, "deterministic")
    IN
    IF \E j \in latents :
          guide_trace[j].shape = <<>> \/ guide_trace[j].shape[1] # num_guide_samples
    THEN Multi_raised("ValueError", num_guide_samples)
    ELSE
    LET latent(s) ==
            [n \in {guide_trace[j].name : j \in latents} |->
                [value |-> <<SiteAt(guide_trace, n).value[s]>>, shape |-> <<>>]]
        model_log_probs(s) ==
            compute_log_probs(get_trace(model, seeds[s], latent(s), params))
        names == NamesOf(model, "sample")
    IN [raised |-> "none",
        log_probs |->
            [n \in names |->
                SeqSum([s \in 1..num_guide_samples |-> model_log_probs(s)[n]])],
        num_guide_samples |-> num_guide_samples,
        model_runs |-> Len(seeds)]

\* elbo.py 206-293
Trace_single_particle_elbo(self, rng_key, pm, model, guide) ==
    LET params0 == dict_copy(pm)
        keys == split(rng_key, 2)
        model_seed == keys[1]
        guide_seed == keys[2]
        mpn == self.max_plate_nesting
    IN
    With(get_trace(guide, guide_seed, EmptyDict, pm), LAMBDA guide_trace :
    With(compute_log_probs(guide_trace), LAMBDA guide_log_probs :
    With(mutable_sites(guide_trace), LAMBDA guide_mutable :
    With(Update(params0.val, guide_mutable), LAMBDA params :
    With(caller_dict(pm, params0, params), LAMBDA pm_after :
    IF self.multi_sample_guide
    THEN With(Trace_multi_sample_log_probs(model, guide_trace, model_seed, params),
              LAMBDA r :
         IF r.raised # "none" THEN Raised(r.raised, pm_after, mpn)
         ELSE [mutable_return(self,
                   Trace_elbo_particle(self, r.log_probs, guide_log_probs),
                   guide_mutable, pm_after)
               EXCEPT !.terms = [model |-> r.log_probs, guide |-> guide_log_probs]])
    ELSE With(get_trace(model, model_seed, replay_values(guide_trace), params),
              LAMBDA model_trace :
         With(compute_log_probs(model_trace), LAMBDA model_log_probs :
         IF ~check_model_guide_match(model_trace, guide_trace)
         THEN Raised("ModelGuideMismatch", pm_after, mpn)
         ELSE [mutable_return(self,
                   Trace_elbo_particle(self, model_log_probs, guide_log_probs),
                   Update(guide_mutable, mutable_sites(model_trace)), pm_after)
               EXCEPT !.terms = [model |-> model_log_probs,
                                 guide |-> guide_log_probs]])))))))

\* elbo.py 297-311: one particle under the caller's key, or the mean over the
\* particles of the split keys
Trace_ELBO_loss_with_mutable_state(self, rng_key, pm, model, guide, perm) ==
    IF self.num_particles = 1
    THEN With(Trace_single_particle_elbo(self, rng_key, pm, model, guide), LAMBDA r :
         IF r.raised # "none"
         THEN CallRaised(r.raised, r.param_map, r.max_plate_nesting, <<rng_key>>)
         ELSE CallReturned(tree_map(jnp_negative, r.elbo), r.mutable_state,
                           r.param_map, <<rng_key>>, <<r>>))
    ELSE With(split(rng_key, self.num_particles), LAMBDA rng_keys :
         With(vectorize_particles_fn(self,
                  [i \in 1..self.num_particles |->
                      Trace_single_particle_elbo(self, rng_keys[i], pm, model, guide)],
                  perm),
              LAMBDA rs :
         IF FirstRaised(rs) # "none"
         THEN CallRaised(FirstRaised(rs), rs[1].param_map, rs[1].max_plate_nesting, rng_keys)
         ELSE CallReturned(particles_mean([i \in 1..Len(rs) |-> rs[i].elbo]),
                           rs[1].mutable_state, rs[1].param_map, rng_keys, rs)))

(***************************************************************************)
(* TraceMeanField_ELBO.                                                    *)
(***************************************************************************)
Abs(x) == IF x < 0 THEN -x ELSE x

\* numpyro.distributions.kl.kl_divergence(q, p): closed form or NotImplementedError
kl_divergence(q, p) ==
    [implemented |-> q.kl /\ p.kl, v |-> Abs(q.w - p.w)]

\* elbo.py 314-320: the summed log-density under the scale of the site
_get_log_prob_sum(site) == site.scale * site.log_prob

\* elbo.py 323-349: "AssertionError", or the warnings emitted
_check_mean_field_requirement(model_trace, guide_trace) ==
    LET InGuide(site) == site.type = "sample" /\ site.name \in TraceNames(guide_trace)
        InModel(site) == site.type = "sample" /\ site.name \in TraceNames(model_trace)
        ms == SelectSeq(model_trace, InGuide)
        gs == SelectSeq(guide_trace, InModel)
        model_sites == [i \in 1..Len(ms) |-> ms[i].name]
        guide_sites == [i \in 1..Len(gs) |-> gs[i].name]
    IN IF {model_sites[i] : i \in 1..Len(model_sites)}
             # {guide_sites[i] : i \in 1..Len(guide_sites)}
       THEN [raised |-> "AssertionError", warned |-> {}]
       ELSE IF model_sites # guide_sites
            THEN [raised |-> "none", warned |-> {"mean_field_order"}]
            ELSE [raised |-> "none", warned |-> {}]

\* mutant of MeanField_elbo_particle: one missing KL makes every latent
\* site fall back on the difference of the log-densities
MeanField_elbo_particle_all(model_trace, guide_trace) ==
    LET model_names == NamesOf(model_trace, "sample")
        aux_names == NamesOf(guide_trace, "sample") \ TraceNames(model_trace)
        latent == {n \in model_names : ~SiteAt(model_trace, n).is_observed}
        all_kl == \A n \in latent :
                     kl_divergence(SiteAt(guide_trace, n).fn,
                                   SiteAt(model_trace, n).fn).implemented
        term(name) ==
            IF name \in model_names
            THEN LET model_site == SiteAt(model_trace, name) IN
                 IF model_site.is_observed THEN _get_log_prob_sum(model_site)
                 ELSE LET guide_site == SiteAt(guide_trace, name)
                          kl_qp == kl_divergence(guide_site.fn, model_site.fn)
                      IN IF all_kl THEN -(guide_site.scale * kl_qp.v)
                         ELSE _get_log_prob_sum(model_site) - _get_log_prob_sum(guide_site)
            ELSE -_get_log_prob_sum(SiteAt(guide_trace, name))
    IN [name \in model_names \cup aux_names |-> term(name)]

\* elbo.py 425-445: the per-site terms
MeanField_elbo_particle(model_trace, guide_trace) ==
    LET model_names == NamesOf(model_trace, "sample")
        aux_names == NamesOf(guide_trace, "sample") \ TraceNames(model_trace)
        term(name) ==
            IF name \in model_names
            THEN LET model_site == SiteAt(model_trace, name) IN
                 IF model_site.is_observed THEN _get_log_prob_sum(model_site)
                 ELSE LET guide_site == SiteAt(guide_trace, name)
                          kl_qp == kl_divergence(guide_site.fn, model_site.fn)
                      IN IF kl_qp.implemented THEN -(guide_site.scale * kl_qp.v)
                         ELSE _get_log_prob_sum(model_site) - _get_log_prob_sum(guide_site)
            ELSE -_get_log_prob_sum(SiteAt(guide_trace, name))
    IN [name \in model_names \cup aux_names |-> term(name)]

\* elbo.py 397-459
MeanField_single_particle_elbo(self, rng_key, pm, model, guide) ==
    LET params0 == dict_copy(pm)
        keys == split(rng_key, 2)
        model_seed == keys[1]
        guide_seed == keys[2]
        mpn == self.max_plate_nesting
    IN
    With(get_trace(guide, guide_seed, EmptyDict, pm), LAMBDA guide_trace :
    With(mutable_sites(guide_trace), LAMBDA guide_mutable :
    With(Update(params0.val, guide_mutable), LAMBDA params :
    With(caller_dict(pm, params0, params), LAMBDA pm_after :
    With(get_trace(model, model_seed, replay_values(guide_trace), params),
         LAMBDA model_trace :
    With(_check_mean_field_requirement(model_trace, guide_trace), LAMBDA mf :
    IF ~check_model_guide_match(model_trace, guide_trace)
    THEN Raised("ModelGuideMismatch", pm_after, mpn)
    ELSE IF mf.raised # "none" THEN Raised(mf.raised, pm_after, mpn)
    ELSE IF \E name \in NamesOf(guide_trace, "sample") \ TraceNames(model_trace) :
               ~(SiteAt(guide_trace, name).is_auxiliary
                 \/ SiteAt(guide_trace, name).is_observed)
    THEN Raised("AssertionError", pm_after, mpn)
    ELSE With(MeanField_elbo_particle(model_trace, guide_trace), LAMBDA _elbo_particle :
         With(mutable_return(self,
                  IF self.sum_sites
                  THEN Array(SetSum(_elbo_particle, DOMAIN _elbo_particle))
                  ELSE Dict(_elbo_particle),
                  Update(guide_mutable, mutable_sites(model_trace)), pm_after),
              LAMBDA r :
         [r EXCEPT !.warned = r.warned \cup mf.warned]))))))))

\* elbo.py 461-475
TraceMeanField_ELBO_loss_with_mutable_state(self, rng_key, pm, model, guide, perm) ==
    IF self.num_particles = 1
    THEN With(MeanField_single_particle_elbo(self, rng_key, pm, model, guide), LAMBDA r :
         IF r.raised # "none"
         THEN CallRaised(r.raised, r.param_map, r.max_plate_nesting, <<rng_key>>)
         ELSE CallReturned(tree_map(jnp_negative, r.elbo), r.mutable_state,
                           r.param_map, <<rng_key>>, <<r>>))
    ELSE With(split(rng_key, self.num_particles), LAMBDA rng_keys :
         With(vectorize_particles_fn(self,
                  [i \in 1..self.num_particles |->
                      MeanField_single_particle_elbo(self, rng_keys[i], pm, model, guide)],
                  perm),
              LAMBDA rs :
         IF FirstRaised(rs) # "none"
         THEN CallRaised(FirstRaised(rs), rs[1].param_map, rs[1].max_plate_nesting, rng_keys)
         ELSE CallReturned(particles_mean([i \in 1..Len(rs) |-> rs[i].elbo]),
                           rs[1].mutable_state, rs[1].param_map, rng_keys, rs)))

(***************************************************************************)
(* numpyro.infer.util.get_importance_trace: the guide trace and the model  *)
(* trace replayed against it, both with log-densities.                     *)
(***************************************************************************)
get_importance_trace(model, guide, model_seed, guide_seed, pm) ==
    LET guide_trace == get_trace(guide, guide_seed, EmptyDict, pm) IN
    [guide |-> guide_trace,
     model |-> get_trace(model, model_seed, replay_values(guide_trace), pm)]

SampleLogProbSum(tr) ==
    SeqSum([j \in 1..Len(tr) |-> IF tr[j].type = "sample" THEN tr[j].log_prob ELSE 0])

(***************************************************************************)
(* RenyiELBO.  Reals of the form log2 are kept symbolically: logsumexp of  *)
(* integers k_i is base + log2(sum) with sum = SUM 2^(k_i - base).         *)
(***************************************************************************)
RECURSIVE SeqMin(_)
SeqMin(s) ==
    IF Len(s) = 1 THEN s[1]
    ELSE LET m == SeqMin(Tail(s)) IN IF Head(s) < m THEN Head(s) ELSE m

logsumexp(xs) ==
    LET base == SeqMin(xs) IN
    [base |-> base, sum |-> SeqSum([i \in 1..Len(xs) |-> 2 ^ (xs[i] - base)])]

\* elbo.py 535-607: (elbo / indep_plate_scale, indep_plate_scale)
Renyi_single_particle_elbo(self, rng_key, pm, model, guide) ==
    LET keys == split(rng_key, 2)
        model_seed == keys[1]
        guide_seed == keys[2]
        mpn == self.max_plate_nesting
        indep_plate_scale == 1
    IN
    With(get_importance_trace(model, guide, model_seed, guide_seed, pm), LAMBDA tr :
    LET site_plates == [name \in NamesOf(tr.model, "sample") |-> {}]
        elbo == SampleLogProbSum(tr.model) - SampleLogProbSum(tr.guide)
    IN IF ~check_model_guide_match(tr.model, tr.guide)
       THEN Raised("ModelGuideMismatch", pm, mpn)
       ELSE IF DOMAIN site_plates = {}
            THEN Raised("TypeError", pm, mpn)
            ELSE Returned(Array([elbo |-> elbo, scale |-> indep_plate_scale]),
                          NoneState, {}, pm, mpn))

\* elbo.py 639-651: the particles' (elbo, scale) pairs pooled into the loss
Renyi_combine(self, pairs) ==
    LET n == Len(pairs)
        elbos == [i \in 1..n |-> pairs[i].v.elbo]
        common_plate_scale == [i \in 1..n |-> pairs[i].v.scale]
        a == 1 - self.alpha.v
        scaled_elbos == [i \in 1..n |-> a * elbos[i]]
        lse == logsumexp(scaled_elbos)
        \* avg_log_exp = lse - log(n); weights = exp(scaled_elbos - avg_log_exp)
        weights == [i \in 1..n |-> Frac(n * (2 ^ (scaled_elbos[i] - lse.base)), lse.sum)]
        renyi_elbo == [lse |-> lse, n |-> n, div |-> a]
        weighted_elbo ==
            Frac(SeqSum([i \in 1..n |-> weights[i].num * elbos[i]]), lse.sum * n)
    IN \* loss = -(stop_gradient(renyi_elbo - weighted_elbo) + weighted_elbo)
       Array([neg_renyi_elbo |-> renyi_elbo, surrogate |-> weighted_elbo,
              scale |-> common_plate_scale[1]])

\* elbo.py 609-651
RenyiELBO_loss(self, rng_key, pm, model, guide, perm) ==
    LET keys == split(rng_key, 2)
        plate_key == keys[1]
    IN
    With(split(keys[2], self.num_particles), LAMBDA rng_keys :
    With(vectorize_particles_fn(self,
             [i \in 1..self.num_particles |->
                 Renyi_single_particle_elbo(self, rng_keys[i], pm, model, guide)],
             perm),
         LAMBDA rs :
    IF FirstRaised(rs) # "none"
    THEN CallRaised(FirstRaised(rs), pm, self.max_plate_nesting, rng_keys)
    ELSE CallReturned(Renyi_combine(self, [i \in 1..Len(rs) |-> rs[i].elbo]),
                      NoneState, pm, rng_keys, rs)))

(***************************************************************************)
(* TraceGraph_ELBO (value of the estimator).                               *)
(***************************************************************************)
\* elbo.py 852-903
Graph_single_particle_elbo(self, rng_key, pm, model, guide) ==
    LET keys == split(rng_key, 2)
        mpn == self.max_plate_nesting
    IN
    With(get_importance_trace(model, guide, keys[1], keys[2], pm), LAMBDA tr :
    IF ~check_model_guide_match(tr.model, tr.guide)
    THEN Raised("ModelGuideMismatch", pm, mpn)
    ELSE Returned(Array(SampleLogProbSum(tr.model) - SampleLogProbSum(tr.guide)),
                  NoneState, {}, pm, mpn))

\* elbo.py 905-913
TraceGraph_ELBO_loss(self, rng_key, pm, model, guide, perm) ==
    IF self.num_particles = 1
    THEN With(Graph_single_particle_elbo(self, rng_key, pm, model, guide), LAMBDA r :
         IF r.raised # "none"
         THEN CallRaised(r.raised, r.param_map, r.max_plate_nesting, <<rng_key>>)
         ELSE CallReturned(Array(jnp_negative(r.elbo.v)), NoneState,
                           r.param_map, <<rng_key>>, <<r>>))
    ELSE With(split(rng_key, self.num_particles), LAMBDA rng_keys :
         With(vectorize_particles_fn(self,
                  [i \in 1..self.num_particles |->
                      Graph_single_particle_elbo(self, rng_keys[i], pm, model, guide)],
                  perm),
              LAMBDA rs :
         IF FirstRaised(rs) # "none"
         THEN CallRaised(FirstRaised(rs), rs[1].param_map, rs[1].max_plate_nesting, rng_keys)
         ELSE CallReturned(particles_mean([i \in 1..Len(rs) |-> rs[i].elbo]),
                           NoneState, rs[1].param_map, rng_keys, rs)))

(***************************************************************************)
(* TraceEnum_ELBO (programs without model-side enumeration).               *)
(***************************************************************************)
RECURSIVE SeqMax(_)
SeqMax(s) ==
    IF s = <<>> THEN 0
    ELSE LET m == SeqMax(Tail(s)) IN IF Head(s) > m THEN Head(s) ELSE m

\* elbo.py 1060-1084
guess_max_plate_nesting(model, guide, model_seed, guide_seed, pm) ==
    With(get_importance_trace(model, guide, model_seed, guide_seed, pm), LAMBDA tr :
    With(SelectSeq(tr.model \o tr.guide, LAMBDA site : site.type = "sample"),
         LAMBDA sites :
    SeqMax([j \in 1..Len(sites) |-> Len(sites[j].shape)])))

\* the model latents a guide leaves to enumeration
model_enumerated(model, guide) ==
    {model[j].name : j \in {i \in SitesOf(model, "sample") : ~model[i].is_observed}}
        \ NamesOf(guide, "sample")

\* mutant: the depth is inferred in every call
Enum_guessed_plate_nesting(self, model, guide, model_seed, guide_seed, pm) ==
    guess_max_plate_nesting(model, guide, model_seed, guide_seed, pm)

\* elbo.py 1146-1153: self.max_plate_nesting, assigned if it is the sentinel
Enum_max_plate_nesting(self, model, guide, model_seed, guide_seed, pm) ==
    IF self.max_plate_nesting = Inf
    THEN guess_max_plate_nesting(model, guide, model_seed, guide_seed, pm)
    ELSE self.max_plate_nesting

\* elbo.py 1140-1302
Enum_single_particle_elbo(self, rng_key, pm, model, guide) ==
    LET keys == split(rng_key, 2)
        model_seed == keys[1]
        guide_seed == keys[2]
    IN
    With(Enum_max_plate_nesting(self, model, guide, model_seed, guide_seed, pm),
         LAMBDA mpn :
    With(get_importance_trace(model, guide, model_seed, guide_seed, pm), LAMBDA tr :
    \* elbo.py 986: model_trace[name] for every guide sample site
    IF ~(NamesOf(tr.guide, "sample") \subseteq TraceNames(tr.model))
    THEN Raised("KeyError", pm, mpn)
    ELSE Returned(Array(SampleLogProbSum(tr.model) - SampleLogProbSum(tr.guide)),
                  NoneState, {}, pm, mpn)))

\* elbo.py 1304-1312: every particle that finds max_plate_nesting unset
\* stores the same guess, which depends on the programs' shapes only
TraceEnum_ELBO_loss(self, rng_key, pm, model, guide, perm) ==
    IF self.num_particles = 1
    THEN With(Enum_single_particle_elbo(self, rng_key, pm, model, guide), LAMBDA r :
         IF r.raised # "none"
         THEN CallRaised(r.raised, r.param_map, r.max_plate_nesting, <<rng_key>>)
         ELSE CallReturned(Array(jnp_negative(r.elbo.v)), NoneState,
                           r.param_map, <<rng_key>>, <<r>>))
    ELSE With(split(rng_key, self.num_particles), LAMBDA rng_keys :
         With(vectorize_particles_fn(self,
                  [i \in 1..self.num_particles |->
                      Enum_single_particle_elbo(self, rng_keys[i], pm, model, guide)],
                  perm),
              LAMBDA rs :
         IF FirstRaised(rs) # "none"
         THEN CallRaised(FirstRaised(rs), rs[1].param_map, rs[1].max_plate_nesting, rng_keys)
         ELSE CallReturned(particles_mean([i \in 1..Len(rs) |-> rs[i].elbo]),
                           NoneState, rs[1].param_map, rng_keys, rs)))

(***************************************************************************)
(* The other constructors.                                                 *)
(***************************************************************************)
RenyiDefaultParticles == 2

\* elbo.py 379-386
TraceMeanField_ELBO_init(num_particles, vectorize_particles, sum_sites) ==
    ELBO_init("TraceMeanField_ELBO", num_particles, vectorize_particles,
              Extra(FALSE, sum_sites, 0, 0))

\* mutant: only the int 1 is rejected
RenyiELBO_init_int(alpha, given, num_particles) ==
    IF alpha.t = "int" /\ alpha.v = 1 THEN NoEst
    ELSE ELBO_init("RenyiELBO",
                   IF given THEN num_particles ELSE RenyiDefaultParticles,
                   PyTrue, Extra(FALSE, TRUE, alpha, 0))

\* elbo.py 526-533: alpha == 1 compares by numeric value
RenyiELBO_init(alpha, given, num_particles) ==
    IF alpha.v = 1 THEN NoEst
    ELSE ELBO_init("RenyiELBO",
                   IF given THEN num_particles ELSE RenyiDefaultParticles,
                   PyTrue, Extra(FALSE, TRUE, alpha, 0))

\* elbo.py 821-826
TraceGraph_ELBO_init(num_particles, vectorize_particles) ==
    ELBO_init("TraceGraph_ELBO", num_particles, vectorize_particles,
              Extra(FALSE, TRUE, 0, 0))

\* elbo.py 1119-1129
TraceEnum_ELBO_init(num_particles, max_plate_nesting, vectorize_particles) ==
    ELBO_init("TraceEnum_ELBO", num_particles, vectorize_particles,
              Extra(FALSE, TRUE, 0, max_plate_nesting))

AlphaValues ==
    {[t |-> "int", v |-> 0], [t |-> "int", v |-> 2], [t |-> "bool", v |-> 0],
     [t |-> "int", v |-> 1], [t |-> "float", v |-> 1], [t |-> "bool", v |-> 1]}

PlateNestings == {Inf, 0, 2}

(***************************************************************************)
(* Method dispatch.                                                        *)
(***************************************************************************)
\* elbo.py 124-148 and the overrides
loss_with_mutable_state(self, rng_key, pm, model, guide, perm) ==
    IF self.cls = "Trace_ELBO"
    THEN Trace_ELBO_loss_with_mutable_state(self, rng_key, pm, model, guide, perm)
    ELSE IF self.cls = "TraceMeanField_ELBO"
    THEN TraceMeanField_ELBO_loss_with_mutable_state(self, rng_key, pm, model, guide, perm)
    ELSE CallRaised("NotImplementedError", pm, self.max_plate_nesting, <<>>)

\* mutant: model and guide passed in the wrong order
ELBO_loss_swapped(self, rng_key, pm, model, guide, perm) ==
    [loss_with_mutable_state(self, rng_key, pm, guide, model, perm)
        EXCEPT !.mutable_state = NoneState]

\* elbo.py 97-122: loss_with_mutable_state(...)["loss"]
ELBO_loss(self, rng_key, pm, model, guide, perm) ==
    [loss_with_mutable_state(self, rng_key, pm, model, guide, perm)
        EXCEPT !.mutable_state = NoneState]

loss(self, rng_key, pm, model, guide, perm) ==
    IF self.cls = "RenyiELBO" THEN RenyiELBO_loss(self, rng_key, pm, model, guide, perm)
    ELSE IF self.cls = "TraceGraph_ELBO"
    THEN TraceGraph_ELBO_loss(self, rng_key, pm, model, guide, perm)
    ELSE IF self.cls = "TraceEnum_ELBO"
    THEN TraceEnum_ELBO_loss(self, rng_key, pm, model, guide, perm)
    ELSE ELBO_loss(self, rng_key, pm, model, guide, perm)

(***************************************************************************)
(* MultiFrameTensor (elbo.py 668-716).  A tensor is a shape and the        *)
(* integer elements at its index tuples; a frame is a CondIndepStackFrame  *)
(* whose dim counts from the right.  The accumulator maps a set of frames  *)
(* to a tensor and remembers the order in which its keys were inserted.    *)
(***************************************************************************)
Idx(shape) ==
    {s \in [1..Len(shape) -> 1..SeqMax(shape)] : \A i \in 1..Len(shape) : s[i] <= shape[i]}

IdxCode(idx) == SeqSum([i \in 1..Len(idx) |-> i * idx[i]])

\* the input tensors: the elements are distinct and start at seed
Tensor(shape, seed) ==
    [shape |-> shape, data |-> [idx \in Idx(shape) |-> seed + IdxCode(idx)]]

Scalar(x) == [shape |-> <<>>, data |-> [idx \in {<<>>} |-> x]]

jnp_ndim(t) == Len(t.shape)

\* the position, from the left, of a dimension counted from the right
Axis(t, dim) == Len(t.shape) + dim + 1

Pad(shape, r) ==
    [i \in 1..r |-> IF i <= r - Len(shape) THEN 1 ELSE shape[i - (r - Len(shape))]]

Max(a, b) == IF a >= b THEN a ELSE b

broadcastable(sa, sb) ==
    With(Max(Len(sa), Len(sb)), LAMBDA r :
        \A i \in 1..r : \/ Pad(sa, r)[i] = Pad(sb, r)[i]
                        \/ Pad(sa, r)[i] = 1
                        \/ Pad(sb, r)[i] = 1)

broadcast_shapes(sa, sb) ==
    With(Max(Len(sa), Len(sb)), LAMBDA r :
        [i \in 1..r |-> Max(Pad(sa, r)[i], Pad(sb, r)[i])])

\* the element of t that a broadcast index of rank r reads
At(t, idx, r) ==
    t.data[[i \in 1..Len(t.shape) |->
                IF t.shape[i] = 1 THEN 1 ELSE idx[i + (r - Len(t.shape))]]]

\* a + b of two arrays; shapes that do not broadcast raise
tensor_add(a, b) ==
    IF ~broadcastable(a.shape, b.shape) THEN [raised |-> "ValueError", value |-> a]
    ELSE With(broadcast_shapes(a.shape, b.shape), LAMBDA sh :
            [raised |-> "none",
             value |-> [shape |-> sh,
                        data |-> [idx \in Idx(sh) |->
                                     At(a, idx, Len(sh)) + At(b, idx, Len(sh))]]])

\* value.sum(axis, keepdims=True), axis given as a position from the left
tensor_sum_keepdims(t, p) ==
    With([t.shape EXCEPT ![p] = 1], LAMBDA sh :
        [shape |-> sh,
         data |-> [idx \in Idx(sh) |->
                      SeqSum([j \in 1..t.shape[p] |-> t.data[[idx EXCEPT ![p] = j]]])]])

\* value.squeeze(0)
tensor_squeeze0(t) ==
    [shape |-> Tail(t.shape),
     data |-> [idx \in Idx(Tail(t.shape)) |-> t.data[<<1>> \o idx]]]

\* the sum of all the elements of a tensor
tensor_total(t) == SetSum(t.data, DOMAIN t.data)

Frame(name, dim, size) == [name |-> name, dim |-> dim, size |-> size]

FrameA == Frame("a", -1, 2)

FrameB == Frame("b", -2, 2)

\* cond_indep_stacks and values the accumulator is fed with
Stacks == {<<>>, <<FrameA, FrameB>>, <<FrameB, FrameA>>}

Shapes == {<<2>>, <<1, 2>>, <<2, 2>>}

\* the targets sum_to is asked for
Targets == Stacks \cup {<<FrameA>>}

Items ==
    {[stack |-> st, value |-> Tensor(sh, seed)] :
        st \in Stacks, sh \in Shapes, seed \in 0..MaxSeed}

frozenset(stack) == {stack[i] : i \in 1..Len(stack)}

MFT_empty == [entries |-> EmptyDict, order |-> <<>>, raised |-> "none"]

\* elbo.py 695: the assertion of add
MFT_admits(item) ==
    \A f \in frozenset(item.stack) : f.dim < 0 /\ -jnp_ndim(item.value) <= f.dim

\* mutant of MFT_add_item: a stored entry is replaced, not added to
MFT_add_item_replace(self, item) ==
    IF self.raised # "none" THEN self
    ELSE IF ~MFT_admits(item) THEN [self EXCEPT !.raised = "AssertionError"]
    ELSE [entries |-> Update(self.entries,
                             [k \in {frozenset(item.stack)} |-> item.value]),
          order |-> IF frozenset(item.stack) \in DOMAIN self.entries
                    THEN self.order ELSE Append(self.order, frozenset(item.stack)),
          raised |-> "none"]

\* elbo.py 693-699: the body of the loop of add, for one item
MFT_add_item(self, item) ==
    With(frozenset(item.stack), LAMBDA frames :
        IF self.raised # "none" THEN self
        ELSE IF ~MFT_admits(item) THEN [self EXCEPT !.raised = "AssertionError"]
        ELSE IF frames \in DOMAIN self.entries
        THEN With(tensor_add(self.entries[frames], item.value), LAMBDA s :
                IF s.raised # "none" THEN [self EXCEPT !.raised = s.raised]
                ELSE [self EXCEPT !.entries = Update(self.entries,
                                                      [k \in {frames} |-> s.value])])
        ELSE [entries |-> Update(self.entries, [k \in {frames} |-> item.value]),
              order |-> Append(self.order, frames),
              raised |-> "none"])

\* elbo.py 687-699: add(*items); an item that raises ends the call
RECURSIVE MFT_add(_, _)
MFT_add(self, items) ==
    IF items = <<>> THEN self
    ELSE MFT_add(MFT_add_item(self, Head(items)), Tail(items))

\* elbo.py 704-706: the frames of an entry that are not in the target are
\* summed out, keeping the dimension
RECURSIVE MFT_sum_frames(_, _, _)
MFT_sum_frames(value, frames, target_frames) ==
    IF frames = {} THEN value
    ELSE With(CHOOSE f \in frames : TRUE, LAMBDA f :
            MFT_sum_frames(
                IF f \notin frozenset(target_frames)
                   /\ value.shape[Axis(value, f.dim)] # 1
                THEN tensor_sum_keepdims(value, Axis(value, f.dim))
                ELSE value,
                frames \ {f}, target_frames))

\* elbo.py 707-708: leading dimensions of size one are squeezed away
RECURSIVE MFT_squeeze_leading(_)
MFT_squeeze_leading(value) ==
    IF value.shape # <<>> /\ value.shape[1] = 1
    THEN MFT_squeeze_leading(tensor_squeeze0(value))
    ELSE value

MFT_reduced(self, frames, target_frames) ==
    MFT_squeeze_leading(MFT_sum_frames(self.entries[frames], frames, target_frames))

\* elbo.py 702-710: total over the entries in insertion order
RECURSIVE MFT_total(_, _, _, _)
MFT_total(self, keys, target_frames, total) ==
    IF keys = <<>> \/ total.raised # "none" THEN total
    ELSE MFT_total(self, Tail(keys), target_frames,
                   IF total.none
                   THEN [raised |-> "none", none |-> FALSE,
                         value |-> MFT_reduced(self, Head(keys), target_frames)]
                   ELSE With(tensor_add(total.value,
                                        MFT_reduced(self, Head(keys), target_frames)),
                             LAMBDA s : [raised |-> s.raised, none |-> FALSE,
                                         value |-> s.value]))

sum_to(self, target_frames) ==
    With(MFT_total(self, self.order, target_frames,
                   [raised |-> "none", none |-> TRUE, value |-> Scalar(0)]),
         LAMBDA total : [raised |-> total.raised, value |-> total.value])

\* mutant: the reduced tensors are stored back into the entries
MFT_sum_to_in_place(self, target_frames) ==
    [self EXCEPT !.entries = [frames \in DOMAIN self.entries |->
                                 MFT_reduced(self, frames, target_frames)]]

\* elbo.py 701-710: the accumulator after sum_to; the loop rebinds its local
\* names value and total to new arrays and assigns to no item of self
MFT_after_sum_to(self, target_frames) ==
    self

NoSum == [op |-> "none"]

MFTInit ==
    /\ mft = [self |-> MFT_empty, hist |-> <<>>]
    /\ summed = NoSum

(***************************************************************************)
(* The particle of TraceGraph_ELBO with its surrogate terms (elbo.py       *)
(* 852-903), on traces whose sites carry a log_prob tensor, the stack of   *)
(* plates they were sampled in and whether their distribution can be       *)
(* reparameterized.  get_nonreparam_deps is not part of this source: its   *)
(* result is an input, a mapping from each sample site to guide latents    *)
(* that are not reparameterizable.                                         *)
(***************************************************************************)
\* a + b, a * b and -a of arrays, the products broadcast as the sums are
tensor_mul(a, b) ==
    IF ~broadcastable(a.shape, b.shape) THEN [raised |-> "ValueError", value |-> a]
    ELSE With(broadcast_shapes(a.shape, b.shape), LAMBDA sh :
            [raised |-> "none",
             value |-> [shape |-> sh,
                        data |-> [idx \in Idx(sh) |->
                                     At(a, idx, Len(sh)) * At(b, idx, Len(sh))]]])

tensor_neg(a) == [shape |-> a.shape, data |-> [idx \in DOMAIN a.data |-> -a.data[idx]]]

\* the value of stop_gradient(x) is x
stop_gradient(x) == x

\* the batch shape a stack of plates gives to a site
plate_rank(stack) == SeqMax([i \in 1..Len(stack) |-> -stack[i].dim])

plate_shape(stack) ==
    [p \in 1..plate_rank(stack) |->
        IF \E i \in 1..Len(stack) : plate_rank(stack) + stack[i].dim + 1 = p
        THEN (CHOOSE f \in frozenset(stack) : plate_rank(stack) + f.dim + 1 = p).size
        ELSE 1]

GraphSite(name, stack, seed, has_rsample, is_observed) ==
    [name |-> name, type |-> "sample", cond_indep_stack |-> stack,
     log_prob |-> Tensor(plate_shape(stack), seed),
     has_rsample |-> has_rsample, is_observed |-> is_observed]

\* the plates of the latent sites z and w and of the observed site x
GraphPlates ==
    << [z |-> <<>>, w |-> <<>>, x |-> <<>>],
       [z |-> <<>>, w |-> <<FrameA>>, x |-> <<FrameB, FrameA>>],
       [z |-> <<FrameA>>, w |-> <<FrameB, FrameA>>, x |-> <<FrameA>>],
       [z |-> <<FrameB>>, w |-> <<FrameA>>, x |-> <<FrameA, FrameB>>] >>

GraphLatents == {"z", "w"}

Graph_model_trace(plates) ==
    << GraphSite("z", plates.z, 0, TRUE, FALSE),
       GraphSite("w", plates.w, 1, TRUE, FALSE),
       GraphSite("x", plates.x, 2, TRUE, TRUE) >>

Graph_guide_trace(plates, rs) ==
    << GraphSite("z", plates.z, 1, rs["z"], FALSE),
       GraphSite("w", plates.w, 3, rs["w"], FALSE) >>

\* the guide latents whose distribution has no reparameterized sampler
nonreparam(guide_trace) ==
    {guide_trace[i].name : i \in {j \in 1..Len(guide_trace) : ~guide_trace[j].has_rsample}}

\* elbo.py 879-882, 890-893: downstream_costs[key].add((stack, value)),
\* for each key of deps
RECURSIVE Graph_add_costs(_, _, _)
Graph_add_costs(costs, keys, item) ==
    IF keys = {} THEN costs
    ELSE With(CHOOSE k \in keys : TRUE, LAMBDA k :
            Graph_add_costs(
                Update(costs, [n \in {k} |-> MFT_add(Get(costs, k, MFT_empty), <<item>>)]),
                keys \ {k}, item))

\* elbo.py 875-882: the loop over the model trace
RECURSIVE Graph_model_loop(_, _, _)
Graph_model_loop(acc, sites, model_deps) ==
    IF sites = <<>> THEN acc
    ELSE With(Head(sites), LAMBDA site :
            Graph_model_loop(
                [elbo |-> acc.elbo + tensor_total(site.log_prob),
                 costs |-> Graph_add_costs(acc.costs, model_deps[site.name],
                              [stack |-> site.cond_indep_stack, value |-> site.log_prob])],
                Tail(sites), model_deps))

\* elbo.py 883-893: the loop over the guide trace
RECURSIVE Graph_guide_loop(_, _, _)
Graph_guide_loop(acc, sites, guide_deps) ==
    IF sites = <<>> THEN acc
    ELSE With(Head(sites), LAMBDA site :
            Graph_guide_loop(
                [elbo |-> acc.elbo - (IF ~site.has_rsample
                                      THEN stop_gradient(tensor_total(site.log_prob))
                                      ELSE tensor_total(site.log_prob)),
                 costs |-> Graph_add_costs(acc.costs, guide_deps[site.name],
                              [stack |-> site.cond_indep_stack,
                               value |-> tensor_neg(site.log_prob)])],
                Tail(sites), guide_deps))

Graph_site(trace, name) == trace[CHOOSE i \in 1..Len(trace) : trace[i].name = name]

\* elbo.py 896-900: the surrogate of one node
Graph_surrogate(guide_site, cost) ==
    With(sum_to(cost, guide_site.cond_indep_stack), LAMBDA downstream_cost :
        IF cost.raised # "none" THEN [raised |-> cost.raised, value |-> 0]
        ELSE IF downstream_cost.raised # "none"
        THEN [raised |-> downstream_cost.raised, value |-> 0]
        ELSE With(tensor_mul(guide_site.log_prob, stop_gradient(downstream_cost.value)),
                  LAMBDA prod : [raised |-> prod.raised,
                                 value |-> tensor_total(prod.value)]))

\* mutant of Graph_add_surrogate: the surrogate is added and not taken back
Graph_keep_surrogate(elbo, surrogate) == elbo + surrogate

\* elbo.py 901: elbo + surrogate - stop_gradient(surrogate)
Graph_add_surrogate(elbo, surrogate) == elbo + surrogate - stop_gradient(surrogate)

\* elbo.py 895-901: the loop over downstream_costs
RECURSIVE Graph_surrogate_loop(_, _, _, _)
Graph_surrogate_loop(acc, nodes, costs, guide_trace) ==
    IF nodes = {} \/ acc.raised # "none" THEN acc
    ELSE With(CHOOSE n \in nodes : TRUE, LAMBDA node :
            With(Graph_surrogate(Graph_site(guide_trace, node), costs[node]),
                 LAMBDA surrogate :
                    Graph_surrogate_loop(
                        [raised |-> surrogate.raised,
                         elbo |-> Graph_add_surrogate(acc.elbo, surrogate.value),
                         surrogates |-> Update(acc.surrogates,
                                               [k \in {node} |-> surrogate.value])],
                        nodes \ {node}, costs, guide_trace)))

\* elbo.py 870-903: the ELBO of a particle from its two traces and the
\* dependencies of their sites
Graph_elbo_terms(model_trace, guide_trace, model_deps, guide_deps) ==
    With(Graph_guide_loop(
            Graph_model_loop([elbo |-> 0, costs |-> EmptyDict], model_trace, model_deps),
            guide_trace, guide_deps),
         LAMBDA acc :
            Graph_surrogate_loop(
                [raised |-> "none", elbo |-> acc.elbo, surrogates |-> EmptyDict],
                DOMAIN acc.costs, acc.costs, guide_trace))

NoParticle == [op |-> "none"]

GraphInit == graph = NoParticle

(***************************************************************************)
(* The factors of get_importance_trace_enum (elbo.py 950-1021) on a model  *)
(* trace and a guide trace, with the dependencies the caller found         *)
(* (elbo.py 1156-1164).  A site is its name, whether it is observed and    *)
(* its infer["kl"] mark; the factors are the names they were stored at.    *)
(***************************************************************************)
EnumSite(name, is_observed, kl) ==
    [name |-> name, type |-> "sample", is_observed |-> is_observed, kl |-> kl]

\* the model: latents z and w, an observed x and a latent d that the guide
\* never samples, met first, second or third
EnumModelOrders ==
    << <<"d", "z", "w", "x">>, <<"z", "d", "w", "x">>, <<"z", "w", "d", "x">> >>

Enum_model_trace(order, analytic) ==
    [i \in 1..Len(order) |->
        EnumSite(order[i], order[i] = "x",
                 IF order[i] \in analytic THEN "analytic" ELSE "none")]

\* the sample sites of the guide: u is in no model
EnumGuides == {<<>>, <<"z">>, <<"w">>, <<"z", "w">>, <<"z", "u">>}

Enum_guide_trace(names) == [i \in 1..Len(names) |-> EnumSite(names[i], FALSE, "none")]

Enum_names(trace) == {trace[i].name : i \in 1..Len(trace)}

\* elbo.py 1160-1164: the descendants of each variable in the guide
guide_desc(guide_deps, d) ==
    {name \in DOMAIN guide_deps : d \in guide_deps[name] /\ name # d}

Enum_start ==
    [raised |-> "none", site |-> "", kl |-> {}, log_prob |-> {},
     guide_log_prob |-> {}, log_measure |-> {}, sum_vars |-> {}]

Enum_raise(acc, error, name) == [acc EXCEPT !.raised = error, !.site = name]

\* mutant of Enum_analytic_kl: the enumerated variables are not looked at
Enum_analytic_kl_unsummed(acc, name, guide_trace, model_deps, guide_deps, kl_impl) ==
    IF model_deps[name] \cap guide_desc(guide_deps, name) # {}
    THEN Enum_raise(acc, "AssertionError", name)
    ELSE IF name \notin Enum_names(guide_trace)
    THEN Enum_raise(acc, "AssertionError", name)
    ELSE IF ~kl_impl THEN Enum_raise(acc, "NotImplementedError", name)
    ELSE [acc EXCEPT !.kl = @ \cup {name}]

\* elbo.py 960-985: the analytic KL of a model site marked for it
Enum_analytic_kl(acc, name, guide_trace, model_deps, guide_deps, kl_impl) ==
    IF model_deps[name] \cap guide_desc(guide_deps, name) # {}
    THEN Enum_raise(acc, "AssertionError", name)
    ELSE IF model_deps[name] \cap acc.sum_vars # {}
    THEN Enum_raise(acc, "AssertionError", name)
    ELSE IF name \notin Enum_names(guide_trace)
    THEN Enum_raise(acc, "AssertionError", name)
    ELSE IF ~kl_impl THEN Enum_raise(acc, "NotImplementedError", name)
    ELSE [acc EXCEPT !.kl = @ \cup {name}]

\* elbo.py 999-1019: the log measure of a site that is summed or sampled
Enum_log_measure(acc, site, is_model, guide_trace) ==
    IF acc.raised # "none" THEN acc
    ELSE IF ~is_model \/ ~(site.is_observed \/ site.name \in Enum_names(guide_trace))
    THEN [acc EXCEPT !.sum_vars = IF is_model THEN @ \cup {site.name} ELSE @,
                     !.log_measure = @ \cup {<<is_model, site.name>>}]
    ELSE acc

\* elbo.py 952-1019 with is_model true: the sites of the model trace
RECURSIVE Enum_model_loop(_, _, _, _, _, _)
Enum_model_loop(acc, sites, guide_trace, model_deps, guide_deps, kl_impl) ==
    IF sites = <<>> \/ acc.raised # "none" THEN acc
    ELSE With(Head(sites), LAMBDA site :
            Enum_model_loop(
                Enum_log_measure(
                    IF site.kl = "analytic"
                    THEN Enum_analytic_kl(acc, site.name, guide_trace,
                                          model_deps, guide_deps, kl_impl)
                    ELSE [acc EXCEPT !.log_prob = @ \cup {site.name}],
                    site, TRUE, guide_trace),
                Tail(sites), guide_trace, model_deps, guide_deps, kl_impl))

\* elbo.py 952-1019 with is_model false: the sites of the guide trace
RECURSIVE Enum_guide_loop(_, _, _, _)
Enum_guide_loop(acc, sites, model_trace, guide_trace) ==
    IF sites = <<>> \/ acc.raised # "none" THEN acc
    ELSE With(Head(sites), LAMBDA site :
            Enum_guide_loop(
                Enum_log_measure(
                    IF site.name \notin Enum_names(model_trace)
                    THEN Enum_raise(acc, "KeyError", site.name)
                    ELSE IF site.name \in acc.kl THEN acc
                    ELSE [acc EXCEPT !.guide_log_prob = @ \cup {site.name}],
                    site, FALSE, guide_trace),
                Tail(sites), model_trace, guide_trace))

get_importance_trace_enum(model_trace, guide_trace, model_deps, guide_deps, kl_impl) ==
    Enum_guide_loop(
        Enum_model_loop(Enum_start, model_trace, guide_trace,
                        model_deps, guide_deps, kl_impl),
        guide_trace, model_trace, guide_trace)

NoTraces == [op |-> "none"]

EnumInit == etrace = NoTraces

(***************************************************************************)
(* _NumPyroOptim (optim.py 69-158).  A float is finite, nan or an          *)
(* infinity.  The inner optimizer is not part of this source: its state is *)
(* the sequence of the updates update_fn was given, so that two states are *)
(* equal only when the same updates were applied.                          *)
(***************************************************************************)
Finite(x) == [k |-> "finite", v |-> x]

NaN == [k |-> "nan", v |-> 0]

PosInf == [k |-> "inf", v |-> 1]

NegInf == [k |-> "inf", v |-> -1]

jnp_isfinite(x) == x.k = "finite"

\* the objective's values and gradients handed to the optimizer
OptimValues == {Finite(0), NaN, PosInf, NegInf}

OptimGrads == [1..2 -> {Finite(1), NaN, PosInf}]

\* optim.py 77-85
Optim_init(params) == [i |-> 0, opt_state |-> <<>>]

\* optim.py 97-103
Optim_update(self, g, state, value) ==
    [i |-> state.i + 1,
     opt_state |-> Append(state.opt_state,
                          IF self.update_with_value
                          THEN [i |-> state.i, g |-> g, value |-> <<value>>]
                          ELSE [i |-> state.i, g |-> g, value |-> <<>>])]

\* mutant of Optim_is_stable: the gradients are not looked at
Optim_value_is_finite(out, grads) == jnp_isfinite(out)

\* optim.py 153: the value and every entry of the gradients are finite
Optim_is_stable(out, grads) ==
    jnp_isfinite(out) /\ \A j \in DOMAIN grads : jnp_isfinite(grads[j])

\* optim.py 148-158, for the value and gradients the objective gave
eval_and_stable_update(self, out, grads, state) ==
    IF Optim_is_stable(out, grads)
    THEN [out |-> out, state |-> Optim_update(self, grads, state, out)]
    ELSE [out |-> NaN, state |-> state]

NoOptim == [op |-> "none"]

OptimInit == optim = NoOptim

(***************************************************************************)
(* The particle of a Trace_ELBO with multi_sample_guide on guides whose    *)
(* sample sites differ in their leading sizes.                             *)
(***************************************************************************)
MultiGuides ==
    << << ParamSite("loc", 0), SampleSite("z", FALSE, FALSE, 0, <<2>>, TRUE) >>,
       << SampleSite("z", FALSE, FALSE, 1, <<2>>, TRUE),
          SampleSite("w", FALSE, FALSE, 1, <<2>>, TRUE) >>,
       << MutableSite("g", 3), SampleSite("z", FALSE, FALSE, 0, <<1>>, TRUE) >>,
       \* no sample site
       << ParamSite("loc", 0) >>,
       << MutableSite("g", 3), ParamSite("loc", 0) >>,
       \* one guide sample of z, two of w, in both orders
       << SampleSite("z", FALSE, FALSE, 1, <<1>>, TRUE),
          SampleSite("w", FALSE, FALSE, 1, <<2>>, TRUE) >>,
       << SampleSite("w", FALSE, FALSE, 1, <<2>>, TRUE),
          SampleSite("z", FALSE, FALSE, 1, <<1>>, TRUE) >>,
       \* a scalar sample site
       << SampleSite("z", FALSE, FALSE, 1, <<>>, TRUE) >> >>

NoMulti == [op |-> "none"]

MultiInit == multi = NoMulti

(***************************************************************************)
(* The particle of TraceMeanField_ELBO on programs with scaled sites,      *)
(* sites without a registered KL and names shared between a sample site    *)
(* and a parameter.                                                        *)
(***************************************************************************)
MeanFieldModels ==
    << \* z has a closed-form KL, y has none, x is observed; z and x are scaled
       << Scaled(SampleSite("z", FALSE, FALSE, 1, <<2>>, TRUE), 2),
          SampleSite("y", FALSE, FALSE, 2, <<2>>, FALSE),
          Scaled(SampleSite("x", TRUE, FALSE, 2, <<>>, TRUE), 3) >>,
       \* the same sites, y before z
       << SampleSite("y", FALSE, FALSE, 2, <<2>>, FALSE),
          Scaled(SampleSite("z", FALSE, FALSE, 1, <<2>>, TRUE), 2),
          Scaled(SampleSite("x", TRUE, FALSE, 2, <<>>, TRUE), 3) >>,
       \* an observed site named as the guide's parameter
       << SampleSite("z", FALSE, FALSE, 1, <<2>>, TRUE),
          SampleSite("loc", TRUE, FALSE, 2, <<>>, TRUE) >>,
       << SampleSite("z", FALSE, FALSE, 1, <<2>>, TRUE),
          SampleSite("x", TRUE, FALSE, 2, <<>>, TRUE) >> >>

MeanFieldGuides ==
    << << ParamSite("loc", 0),
          Scaled(SampleSite("z", FALSE, FALSE, 3, <<2>>, TRUE), 2),
          SampleSite("y", FALSE, FALSE, 0, <<2>>, TRUE) >>,
       \* an auxiliary site w
       << Scaled(SampleSite("z", FALSE, FALSE, 3, <<2>>, TRUE), 2),
          SampleSite("y", FALSE, FALSE, 0, <<2>>, TRUE),
          Scaled(SampleSite("w", FALSE, TRUE, 1, <<2>>, TRUE), 2) >>,
       << ParamSite("loc", 0), SampleSite("z", FALSE, FALSE, 0, <<2>>, TRUE) >>,
       << SampleSite("z", FALSE, FALSE, 0, <<2>>, FALSE) >>,
       \* a site of the guide that is observed there
       << SampleSite("z", FALSE, FALSE, 3, <<2>>, TRUE),
          SampleSite("o", TRUE, FALSE, 1, <<>>, TRUE) >> >>

NoMeanField == [op |-> "none"]

MeanFieldInit == mfp = NoMeanField

(***************************************************************************)
(* RenyiELBO on sites in plates (elbo.py 535-651).  A plate of the model   *)
(* trace holds its full size in args[0]; a frame holds the subsample size. *)
(* The log-densities of a trace come scaled by size / subsample size of    *)
(* the plates of the site.  The reals of the pooling are kept symbolic:    *)
(* the Renyi value as a record of its logsumexp, the weighted mean as a    *)
(* fraction.                                                               *)
(***************************************************************************)
RECURSIVE GCD(_, _)
GCD(a, b) == IF b = 0 THEN a ELSE GCD(b, a % b)

frac_norm(f) ==
    With(GCD(Abs(f.num), Abs(f.den)), LAMBDA g :
        IF f.den < 0 THEN Frac(-(f.num \div g), -(f.den \div g))
        ELSE Frac(f.num \div g, f.den \div g))

frac_add(f, g) == frac_norm(Frac(f.num * g.den + g.num * f.den, f.den * g.den))

frac_neg(f) == Frac(-f.num, f.den)

tensor_sub(a, b) == tensor_add(a, tensor_neg(b))

\* a / k of an array whose elements are multiples of k
tensor_div(a, k) == [shape |-> a.shape, data |-> [idx \in DOMAIN a.data |-> a.data[idx] \div k]]

tensor_scale(a, k) == [shape |-> a.shape, data |-> [idx \in DOMAIN a.data |-> k * a.data[idx]]]

\* jnp.squeeze(t, axes): the axes, all of size 1, are dropped
tensor_squeeze(t, axes) ==
    With(SelectSeq([p \in 1..Len(t.shape) |-> p], LAMBDA p : p \notin axes), LAMBDA kept :
    With([k \in 1..Len(kept) |-> t.shape[kept[k]]], LAMBDA sh :
        [shape |-> sh,
         data |-> [idx \in Idx(sh) |->
                      t.data[[p \in 1..Len(t.shape) |->
                                 IF p \in axes THEN 1
                                 ELSE idx[Cardinality({q \in 1..p : q \notin axes})]]]]]))

RenyiPlate(frame, size) == [name |-> frame.name, type |-> "plate", args |-> <<size>>]

RECURSIVE SeqProd(_)
SeqProd(s) == IF s = <<>> THEN 1 ELSE Head(s) * SeqProd(Tail(s))

\* the scale the plates of a stack give to a site
RenyiSiteScale(stack, sizes) ==
    SeqProd([i \in 1..Len(stack) |-> sizes[stack[i].name] \div stack[i].size])

RenyiSite(name, stack, sizes, seed) ==
    [name |-> name, type |-> "sample", cond_indep_stack |-> stack,
     scale |-> RenyiSiteScale(stack, sizes),
     log_prob |-> tensor_scale(Tensor(plate_shape(stack), seed),
                               RenyiSiteScale(stack, sizes))]

\* the plates of the latent site z and of the observed site x, and the full
\* sizes of the plates a and b (the frames hold the subsample size 2)
RenyiLayouts ==
    << [z |-> <<>>, x |-> <<>>, sampled |-> TRUE, sizes |-> [a |-> 2, b |-> 2]],
       [z |-> <<FrameA>>, x |-> <<FrameA>>,
        sampled |-> TRUE, sizes |-> [a |-> 2, b |-> 2]],
       [z |-> <<FrameA>>, x |-> <<FrameA>>,
        sampled |-> TRUE, sizes |-> [a |-> 4, b |-> 2]],
       [z |-> <<FrameA>>, x |-> <<FrameB, FrameA>>,
        sampled |-> TRUE, sizes |-> [a |-> 4, b |-> 2]],
       [z |-> <<FrameA>>, x |-> <<FrameB, FrameA>>,
        sampled |-> TRUE, sizes |-> [a |-> 2, b |-> 4]],
       [z |-> <<FrameB, FrameA>>, x |-> <<FrameB, FrameA>>,
        sampled |-> TRUE, sizes |-> [a |-> 4, b |-> 4]],
       [z |-> <<FrameB>>, x |-> <<FrameA, FrameB>>,
        sampled |-> TRUE, sizes |-> [a |-> 2, b |-> 4]],
       [z |-> <<>>, x |-> <<FrameA>>,
        sampled |-> TRUE, sizes |-> [a |-> 4, b |-> 2]],
       [z |-> <<>>, x |-> <<FrameA>>,
        sampled |-> TRUE, sizes |-> [a |-> 2, b |-> 2]],
       \* a model and a guide without sample sites
       [z |-> <<>>, x |-> <<>>,
        sampled |-> FALSE, sizes |-> [a |-> 2, b |-> 2]],
       [z |-> <<>>, x |-> <<>>,
        sampled |-> FALSE, sizes |-> [a |-> 4, b |-> 2]] >>

RenyiAlphas == {0, 2, -1}

RenyiParam(name) == [name |-> name, type |-> "param"]

Renyi_model_trace(layout, seed) ==
    << RenyiPlate(FrameA, layout.sizes.a), RenyiPlate(FrameB, layout.sizes.b) >>
        \o (IF layout.sampled
            THEN << RenyiSite("z", layout.z, layout.sizes, seed),
                    RenyiSite("x", layout.x, layout.sizes, 2) >>
            ELSE << RenyiParam("loc") >>)

Renyi_guide_trace(layout, seed) ==
    << RenyiPlate(FrameA, layout.sizes.a), RenyiPlate(FrameB, layout.sizes.b) >>
        \o (IF layout.sampled
            THEN << RenyiSite("z", layout.z, layout.sizes, 1 - seed) >>
            ELSE << RenyiParam("loc") >>)

\* elbo.py 553-557
Renyi_site_plates(model_trace) ==
    [name \in NamesOf(model_trace, "sample") |->
        frozenset(SiteAt(model_trace, name).cond_indep_stack)]

\* elbo.py 561-564
Renyi_indep_plates(site_plates) ==
    IF DOMAIN site_plates # {}
    THEN {f \in UNION {site_plates[n] : n \in DOMAIN site_plates} :
             \A n \in DOMAIN site_plates : f \in site_plates[n]}
    ELSE {}

\* mutant: a subsampled plate raises also when it is common to all the sites
Renyi_any_subsampling(model_trace, site_plates, indep_plates) ==
    \E frame \in UNION {site_plates[n] : n \in DOMAIN site_plates} :
        SiteAt(model_trace, frame.name).args[1] > frame.size

\* elbo.py 565-574: a subsampled plate that is not common to all the sites
Renyi_local_subsampling(model_trace, site_plates, indep_plates) ==
    \E frame \in UNION {site_plates[n] : n \in DOMAIN site_plates} :
        /\ frame \notin indep_plates
        /\ SiteAt(model_trace, frame.name).args[1] > frame.size

\* elbo.py 576-581
RECURSIVE Renyi_indep_plate_scale(_, _)
Renyi_indep_plate_scale(model_trace, indep_plates) ==
    IF indep_plates = {} THEN 1
    ELSE With(CHOOSE f \in indep_plates : TRUE, LAMBDA frame :
         With(SiteAt(model_trace, frame.name).args[1], LAMBDA size :
            (IF size > frame.size THEN size \div frame.size ELSE 1)
                * Renyi_indep_plate_scale(model_trace, indep_plates \ {frame})))

\* elbo.py 592-597: for dim in range(log_prob.ndim), from position p on
RECURSIVE Renyi_sum_dims(_, _, _)
Renyi_sum_dims(lp, indep_plate_dims, p) ==
    IF p > jnp_ndim(lp)
    THEN [log_prob |-> lp, squeeze_axes |-> {}]
    ELSE IF p - 1 - jnp_ndim(lp) \in indep_plate_dims
         THEN Renyi_sum_dims(lp, indep_plate_dims, p + 1)
         ELSE With(Renyi_sum_dims(tensor_sum_keepdims(lp, p),
                                  indep_plate_dims, p + 1),
                   LAMBDA r : [r EXCEPT !.squeeze_axes = @ \cup {p}])

\* elbo.py 590-598: the log-density of one site over the common plates
Renyi_site_log_prob(site, indep_plate_dims) ==
    With(Renyi_sum_dims(site.log_prob, indep_plate_dims, 1), LAMBDA r :
        tensor_squeeze(r.log_prob, r.squeeze_axes))

\* elbo.py 585-599: log_densities[trace_type]
RECURSIVE Renyi_log_density(_, _)
Renyi_log_density(tr, indep_plate_dims) ==
    IF tr = <<>> THEN [raised |-> "none", value |-> Scalar(0)]
    ELSE With(Renyi_log_density(SubSeq(tr, 1, Len(tr) - 1), indep_plate_dims), LAMBDA acc :
            IF acc.raised # "none" \/ tr[Len(tr)].type # "sample" THEN acc
            ELSE tensor_add(acc.value,
                            Renyi_site_log_prob(tr[Len(tr)], indep_plate_dims)))

\* elbo.py 553-607, after the traces are made
Renyi_particle(model_trace, guide_trace) ==
    With(Renyi_site_plates(model_trace), LAMBDA site_plates :
    With(Renyi_indep_plates(site_plates), LAMBDA indep_plates :
    \* elbo.py 565: set.union(*site_plates.values()) of no sets
    IF DOMAIN site_plates = {} THEN [raised |-> "TypeError"]
    ELSE IF Renyi_local_subsampling(model_trace, site_plates, indep_plates)
    THEN [raised |-> "ValueError"]
    ELSE With(Renyi_indep_plate_scale(model_trace, indep_plates), LAMBDA indep_plate_scale :
         With({frame.dim : frame \in indep_plates}, LAMBDA indep_plate_dims :
         With(Renyi_log_density(guide_trace, indep_plate_dims), LAMBDA guide_density :
         With(Renyi_log_density(model_trace, indep_plate_dims), LAMBDA model_density :
         IF guide_density.raised # "none" \/ model_density.raised # "none"
         THEN [raised |-> "ValueError"]
         ELSE With(tensor_sub(model_density.value, guide_density.value), LAMBDA elbo :
              IF elbo.raised # "none" THEN [raised |-> "ValueError"]
              ELSE [raised |-> "none",
                    elbo |-> tensor_div(elbo.value, indep_plate_scale),
                    scale |-> indep_plate_scale])))))))

\* elbo.py 642-649 at one element of elbos.shape[1:]
Renyi_loss_at(alpha, num_particles, elbos) ==
    With([i \in 1..num_particles |-> (1 - alpha) * elbos[i]], LAMBDA scaled_elbos :
    With(logsumexp(scaled_elbos), LAMBDA lse :
    With([lse |-> lse, n |-> num_particles, div |-> 1 - alpha], LAMBDA renyi_elbo :
    \* weights = exp(scaled_elbos - avg_log_exp) = n * 2^(scaled - base) / sum
    With(frac_norm(Frac(SeqSum([i \in 1..num_particles |->
                                   2 ^ (scaled_elbos[i] - lse.base) * elbos[i]]),
                        lse.sum)),
         LAMBDA weighted_elbo :
    \* loss = -(stop_gradient(renyi_elbo - weighted_elbo) + weighted_elbo)
    With(stop_gradient([renyi |-> renyi_elbo, times |-> 1, plus |-> frac_neg(weighted_elbo)]),
         LAMBDA difference :
        [renyi |-> renyi_elbo, times |-> -difference.times,
         plus |-> frac_neg(frac_add(difference.plus, weighted_elbo))])))))

\* mutant: the scale is not applied again
Renyi_sum_unscaled(losses, common_plate_scale) ==
    [sum_of |-> losses, scaled_by |-> 1]

\* elbo.py 651: loss.sum() * common_plate_scale[0]
Renyi_sum_scaled(losses, common_plate_scale) ==
    [sum_of |-> losses, scaled_by |-> common_plate_scale[1]]

\* elbo.py 635-651, on the particles' (elbo, scale) pairs
Renyi_loss(alpha, num_particles, particles) ==
    IF \E i \in 1..num_particles : particles[i].raised # "none"
    THEN [raised |-> particles[CHOOSE i \in 1..num_particles :
                                  particles[i].raised # "none"].raised]
    ELSE [raised |-> "none",
          loss |-> Renyi_sum_scaled(
                      [cell \in DOMAIN particles[1].elbo.data |->
                          Renyi_loss_at(alpha, num_particles,
                              [i \in 1..num_particles |-> particles[i].elbo.data[cell]])],
                      [i \in 1..num_particles |-> particles[i].scale])]

NoRenyi == [op |-> "none"]

RenyiInit == renyi = NoRenyi

(***************************************************************************)
(* _partition (elbo.py 1024-1057).  An OrderedDict is a sequence of        *)
(* [k, v] items in insertion order; model_sum_deps comes as such a         *)
(* sequence, each value being the frozenset of dependencies in the order   *)
(* its iteration gives.                                                    *)
(***************************************************************************)
od_has(od, k) == \E i \in 1..Len(od) : od[i].k = k

od_get(od, k) == od[CHOOSE i \in 1..Len(od) : od[i].k = k].v

od_keys(od) == {od[i].k : i \in 1..Len(od)}

\* od[k] = v: an old key keeps its place, a new one goes last
od_set(od, k, v) ==
    IF od_has(od, k)
    THEN [i \in 1..Len(od) |-> IF od[i].k = k THEN [k |-> k, v |-> v] ELSE od[i]]
    ELSE Append(od, [k |-> k, v |-> v])

od_del(od, k) == SelectSeq(od, LAMBDA item : item.k # k)

\* mutant: a dim is linked whether it is in sum_vars or not
Partition_link_any(neighbors, key, dim, sum_vars) ==
    With(od_set(neighbors, key, Append(od_get(neighbors, key), dim)), LAMBDA n1 :
        od_set(n1, dim, Append(IF od_has(n1, dim) THEN od_get(n1, dim) ELSE <<>>, key)))

\* elbo.py 1034-1036: one dim of the deps of key
Partition_link(neighbors, key, dim, sum_vars) ==
    IF dim \notin sum_vars THEN neighbors
    ELSE With(od_set(neighbors, key, Append(od_get(neighbors, key), dim)), LAMBDA n1 :
            od_set(n1, dim, Append(IF od_has(n1, dim) THEN od_get(n1, dim) ELSE <<>>, key)))

\* elbo.py 1033-1036: for dim in deps
RECURSIVE Partition_links(_, _, _, _)
Partition_links(neighbors, key, deps, sum_vars) ==
    IF deps = <<>> THEN neighbors
    ELSE Partition_links(Partition_link(neighbors, key, Head(deps), sum_vars),
                         key, Tail(deps), sum_vars)

\* elbo.py 1032-1036: for key, deps in model_sum_deps.items(), from item i on
RECURSIVE Partition_graph(_, _, _, _)
Partition_graph(neighbors, model_sum_deps, sum_vars, i) ==
    IF i > Len(model_sum_deps) THEN neighbors
    ELSE Partition_graph(
            Partition_links(neighbors, model_sum_deps[i].k, model_sum_deps[i].v, sum_vars),
            model_sum_deps, sum_vars, i + 1)

\* elbo.py 1028-1036
Partition_neighbors(model_sum_deps, sum_vars) ==
    Partition_graph([i \in 1..Len(model_sum_deps) |->
                        [k |-> model_sum_deps[i].k, v |-> <<>>]],
                    model_sum_deps, sum_vars, 1)

\* elbo.py 1046-1049: for v in neighbors.pop(v), over the popped list
RECURSIVE Partition_visit(_, _)
Partition_visit(st, popped) ==
    IF popped = <<>> THEN st
    ELSE Partition_visit(
            IF \E j \in 1..Len(st.component) : st.component[j] = Head(popped) THEN st
            ELSE [st EXCEPT !.component = Append(@, Head(popped)),
                            !.pending = Append(@, Head(popped))],
            Tail(popped))

\* elbo.py 1044-1049: while pending
RECURSIVE Partition_walk(_)
Partition_walk(st) ==
    IF st.raised # "none" \/ st.pending = <<>> THEN st
    ELSE With(st.pending[Len(st.pending)], LAMBDA v :
            IF ~od_has(st.neighbors, v) THEN [st EXCEPT !.raised = "KeyError"]
            ELSE Partition_walk(
                    Partition_visit(
                        [st EXCEPT !.pending = SubSeq(@, 1, Len(@) - 1),
                                   !.neighbors = od_del(@, v)],
                        od_get(st.neighbors, v))))

\* elbo.py 1040-1049: one component, from the last item of neighbors
Partition_component(neighbors) ==
    With(neighbors[Len(neighbors)], LAMBDA item :
        Partition_walk([raised |-> "none",
                        neighbors |-> SubSeq(neighbors, 1, Len(neighbors) - 1),
                        component |-> <<item.k>> \o item.v,
                        pending |-> item.v]))

\* mutant: a component without measures is dropped
Partition_split_contracted(components, component, sum_vars) ==
    IF {component[j] : j \in 1..Len(component)} \cap sum_vars = {} THEN components
    ELSE Append(components,
                [factors |-> {component[j] : j \in 1..Len(component)} \ sum_vars,
                 measures |-> {component[j] : j \in 1..Len(component)} \cap sum_vars])

\* elbo.py 1051-1056: the component split into factors and measures
Partition_split(components, component, sum_vars) ==
    IF {component[j] : j \in 1..Len(component)} \ sum_vars = {} THEN components
    ELSE Append(components,
                [factors |-> {component[j] : j \in 1..Len(component)} \ sum_vars,
                 measures |-> {component[j] : j \in 1..Len(component)} \cap sum_vars])

\* elbo.py 1038-1057: while neighbors
RECURSIVE Partition_components(_, _, _)
Partition_components(neighbors, components, sum_vars) ==
    IF neighbors = <<>> THEN [raised |-> "none", components |-> components]
    ELSE With(Partition_component(neighbors), LAMBDA st :
            IF st.raised # "none" THEN [raised |-> st.raised, components |-> components]
            ELSE Partition_components(st.neighbors,
                                      Partition_split(components, st.component, sum_vars),
                                      sum_vars))

\* elbo.py 1024-1057
_partition(model_sum_deps, sum_vars) ==
    Partition_components(Partition_neighbors(model_sum_deps, sum_vars), <<>>, sum_vars)

\* the factor names in the order of model_sum_deps, and the names of the deps
PartitionKeyOrders ==
    {<<>>, <<"f">>, <<"f", "g">>, <<"g", "f">>,
     <<"f", "g", "h">>, <<"h", "g", "f">>, <<"g", "h", "f">>}

PartitionDims == <<"a", "b", "c">>

PartitionDimSet == {PartitionDims[i] : i \in 1..Len(PartitionDims)}

\* a frozenset in one of its iteration orders
PartitionIter(S, reversed) ==
    SelectSeq([i \in 1..Len(PartitionDims) |->
                  PartitionDims[IF reversed THEN Len(PartitionDims) + 1 - i ELSE i]],
              LAMBDA dim : dim \in S)

NoPartition == [op |-> "none"]

PartitionInit == part = NoPartition

(***************************************************************************)
(* patch_dependency (patch.py 8-24).  Functions are objects with the       *)
(* attributes __name__ and _pyro_unpatched (absent: "none"); a target is   *)
(* an attribute of a module under the root module.                         *)
(***************************************************************************)
MaxPatches == 3

PatchTargets ==
    {[root |-> "numpyro", name |-> "a", original |-> "orig_a"],
     [root |-> "numpyro", name |-> "b", original |-> "orig_b"],
     [root |-> "other", name |-> "a", original |-> "orig_a"]}

PatchRoot == "numpyro"

PatchFunctions == {"orig_a", "orig_b", "f", "g"}

\* the __name__ a function is defined with
PatchDefName(fn) ==
    CASE fn = "orig_a" -> "a" [] fn = "orig_b" -> "b" [] OTHER -> fn

\* mutant: the installed function is taken as the original
patch_installed(fns, old_fn) ==
    old_fn

\* patch.py 16: getattr(old_fn, "_pyro_unpatched", old_fn)
patch_unpatched(fns, old_fn) ==
    IF fns[old_fn]._pyro_unpatched # "none" THEN fns[old_fn]._pyro_unpatched ELSE old_fn

\* patch.py 9-16 and 24: the decorator, a closure over module, name and old_fn
patch_dependency(state, target) ==
    IF target.root # PatchRoot
    THEN [state EXCEPT !.raised = "AssertionError"]
    ELSE [state EXCEPT
            !.raised = "none",
            !.decorators = Append(@, [name |-> target.name,
                                      old_fn |-> patch_unpatched(state.fns,
                                                     state.module[target.name])])]

\* patch.py 18-22: decorator(new_fn)
patch_decorator(state, decorator, new_fn) ==
    [state EXCEPT
        !.raised = "none",
        !.fns[new_fn] = [__name__ |-> decorator.name,
                         _pyro_unpatched |-> decorator.old_fn],
        !.module[decorator.name] = new_fn,
        !.applied = Append(@, [name |-> decorator.name, new_fn |-> new_fn])]

PatchInit ==
    patched = [fns |-> [fn \in PatchFunctions |->
                           [__name__ |-> PatchDefName(fn), _pyro_unpatched |-> "none"]],
               module |-> [a |-> "orig_a", b |-> "orig_b"],
               decorators |-> <<>>, applied |-> <<>>, raised |-> "none"]

(***************************************************************************)
(* A TraceEnum_ELBO instance over several loss calls (elbo.py 1119-1153).  *)
(***************************************************************************)
MaxCalls == 2

NoEnumCalls == [est |-> NoEst, max_plate_nesting |-> 0, calls |-> <<>>]

EnumCallsInit == enumc = NoEnumCalls

(***************************************************************************)
(* The cost terms TraceEnum_ELBO gathers (elbo.py 1156-1273) for a model   *)
(* with an enumerated latent d, a latent z and an observed x, met in trace *)
(* order, and a guide over z with or without an auxiliary site u.  There   *)
(* are no plates, so the loop of elbo.py 1252-1262 finds nothing to raise. *)
(* A scale is None, a Python float or a jax array; a cost term is its      *)
(* kind, the sites whose factor it holds, the variables summed out of it,  *)
(* its scale and its deps.                                                 *)
(***************************************************************************)
CostNone == [t |-> "None", ndim |-> 0, v |-> 0]

CostFloat(v) == [t |-> "float", ndim |-> 0, v |-> v]

CostArray(ndim, v) == [t |-> "jnp.ndarray", ndim |-> ndim, v |-> v]

CostScales == {CostNone, CostFloat(1), CostFloat(2), CostArray(0, 2), CostArray(1, 2)}

CostModelOrders == << <<"d", "z", "x">>, <<"z", "d", "x">> >>

CostGuides == {<<>>, <<"z">>, <<"z", "u">>}

\* the sites met before name in the trace
CostEarlier(order, name) ==
    {order[i] : i \in {j \in 1..Len(order) : \E k \in (j + 1)..Len(order) : order[k] = name}}

\* get_nonreparam_deps (elbo.py 773-797): a latent without a reparameterized
\* sampler is substituted (elbo.py 746-749), so its factor depends on it
Cost_deps(names, parents, latent) ==
    [n \in names |-> parents[n] \cup (IF n \in latent THEN {n} ELSE {})]

\* a dict in the order of the trace (elbo.py 1183-1188)
Cost_items(order, keys, values) ==
    SelectSeq([i \in 1..Len(order) |-> [k |-> order[i], v |-> values[order[i]]]],
              LAMBDA item : item.k \in keys)

\* a frozenset in the order of the trace
Cost_iter(order, S) == SelectSeq(order, LAMBDA n : n \in S)

\* elbo.py 1183-1185
Cost_model_sum_deps(order, _model_deps, sum_vars) ==
    Cost_items(order, DOMAIN _model_deps \ sum_vars,
               [n \in DOMAIN _model_deps |-> Cost_iter(order, _model_deps[n] \cap sum_vars)])

\* elbo.py 1186-1188
Cost_model_deps(_model_deps, sum_vars) ==
    [n \in DOMAIN _model_deps \ sum_vars |-> _model_deps[n] \ sum_vars]

Cost_start(guide_deps) ==
    [raised |-> "none", site |-> "", cost_terms |-> <<>>, guide_deps |-> guide_deps]

Cost_raise(acc, error, name) == [acc EXCEPT !.raised = error, !.site = name]

Cost_term(kind, factors, measures, scale, deps) ==
    [kind |-> kind, factors |-> factors, measures |-> measures,
     scale |-> scale, deps |-> deps]

\* elbo.py 1201: assert scale == guide_trace[name]["scale"]; an array of
\* more than one element has no truth value
Cost_scale_eq(acc, name, scale, guide_scale) ==
    IF (scale.t = "jnp.ndarray" /\ scale.ndim > 0)
       \/ (guide_scale.t = "jnp.ndarray" /\ guide_scale.ndim > 0)
    THEN Cost_raise(acc, "ValueError", name)
    ELSE IF scale.t = "None" \/ guide_scale.t = "None"
    THEN (IF scale.t = guide_scale.t THEN acc ELSE Cost_raise(acc, "AssertionError", name))
    ELSE IF scale.v = guide_scale.v THEN acc
    ELSE Cost_raise(acc, "AssertionError", name)

\* mutant of Cost_del: the guide's entry is kept
Cost_del_kept(guide_deps, name) == guide_deps

\* elbo.py 1203: del guide_deps[name]
Cost_del(guide_deps, name) == [n \in DOMAIN guide_deps \ {name} |-> guide_deps[n]]

\* elbo.py 1194-1207: the uncontracted cost term of one factor
Cost_uncontracted(acc, name, tr, model_scale, guide_scale, model_deps) ==
    IF name \in tr.kl
    THEN With(Cost_scale_eq(acc, name, model_scale[name], guide_scale[name]), LAMBDA a1 :
            IF a1.raised # "none" THEN a1
            ELSE [a1 EXCEPT !.cost_terms =
                                Append(@, Cost_term("-kl", {name}, {}, model_scale[name],
                                          (model_deps[name] \cup a1.guide_deps[name])
                                              \ {name})),
                            !.guide_deps = Cost_del(@, name)])
    ELSE IF name \notin tr.log_prob THEN Cost_raise(acc, "KeyError", name)
    ELSE [acc EXCEPT !.cost_terms =
                         Append(@, Cost_term("log_prob", {name}, {}, model_scale[name],
                                             model_deps[name]))]

\* elbo.py 1237-1239 and 1244: None is 1.0, and float(site_scale)
Cost_float(site_scale) == IF site_scale.t = "None" THEN 1 ELSE site_scale.v

\* mutant of Cost_scales_set: the scale of one site stands for all
Cost_scales_first(model_scale, names) ==
    {Cost_float(model_scale[CHOOSE n \in names : TRUE])}

\* elbo.py 1235-1244: scales_set once the loop is through
Cost_scales_set(model_scale, names) == {Cost_float(model_scale[n]) : n \in names}

\* elbo.py 1208-1267: the contracted cost term of one cluster
Cost_contracted(acc, group_names, group_sum_vars, tr, model_scale, model_deps) ==
    IF group_names \ tr.log_prob # {}
    THEN Cost_raise(acc, "KeyError", CHOOSE n \in group_names \ tr.log_prob : TRUE)
    ELSE IF \E n \in group_names \cup group_sum_vars : model_scale[n].t = "jnp.ndarray"
    THEN Cost_raise(acc, "ValueError", "")
    ELSE IF Cardinality(Cost_scales_set(model_scale, group_names \cup group_sum_vars)) # 1
    THEN Cost_raise(acc, "ValueError", "")
    ELSE [acc EXCEPT !.cost_terms =
            Append(@, Cost_term("contracted", group_names, group_sum_vars,
                       CostFloat(CHOOSE s \in Cost_scales_set(model_scale,
                                     group_names \cup group_sum_vars) : TRUE),
                       UNION {model_deps[n] : n \in group_names}))]

\* elbo.py 1193-1267: for group_names, group_sum_vars in _partition(...)
RECURSIVE Cost_groups(_, _, _, _, _, _)
Cost_groups(acc, components, tr, model_scale, guide_scale, model_deps) ==
    IF components = <<>> \/ acc.raised # "none" THEN acc
    ELSE Cost_groups(
            IF Head(components).measures = {}
            THEN Cost_uncontracted(acc, CHOOSE n \in Head(components).factors : TRUE,
                                   tr, model_scale, guide_scale, model_deps)
            ELSE Cost_contracted(acc, Head(components).factors, Head(components).measures,
                                 tr, model_scale, model_deps),
            Tail(components), tr, model_scale, guide_scale, model_deps)

\* elbo.py 1269-1273: for name, deps in guide_deps.items(), in guide order
RECURSIVE Cost_guide_terms(_, _, _, _)
Cost_guide_terms(acc, names, tr, guide_scale) ==
    IF names = <<>> \/ acc.raised # "none" THEN acc
    ELSE Cost_guide_terms(
            IF Head(names) \notin DOMAIN acc.guide_deps THEN acc
            ELSE IF Head(names) \notin tr.guide_log_prob
            THEN Cost_raise(acc, "KeyError", Head(names))
            ELSE [acc EXCEPT !.cost_terms =
                     Append(@, Cost_term("-logq", {Head(names)}, {},
                                         guide_scale[Head(names)],
                                         acc.guide_deps[Head(names)]))],
            Tail(names), tr, guide_scale)

\* elbo.py 1156-1273: the traces, the clusters and the cost terms
Cost_terms(order, analytic, guide, parents, model_scale, guide_scale) ==
    With([model_trace |-> Enum_model_trace(order, analytic),
          guide_trace |-> Enum_guide_trace(guide),
          _model_deps |-> Cost_deps(Enum_names(Enum_model_trace(order, analytic)),
                                    parents, {"d", "z"}),
          guide_deps |-> Cost_deps(Enum_names(Enum_guide_trace(guide)),
                                   [n \in {"z", "u"} |-> {}], {"z", "u"})],
         LAMBDA args :
    With(get_importance_trace_enum(args.model_trace, args.guide_trace,
                                   args._model_deps, args.guide_deps, TRUE),
         LAMBDA tr :
    IF tr.raised # "none"
    THEN [raised |-> tr.raised, site |-> tr.site, stage |-> "traces",
          traces |-> tr, components |-> <<>>, cost_terms |-> <<>>]
    ELSE With(_partition(Cost_model_sum_deps(order, args._model_deps, tr.sum_vars),
                         tr.sum_vars),
              LAMBDA groups :
         IF groups.raised # "none"
         THEN [raised |-> groups.raised, site |-> "", stage |-> "_partition",
               traces |-> tr, components |-> groups.components, cost_terms |-> <<>>]
         ELSE With(Cost_guide_terms(
                       Cost_groups(Cost_start(args.guide_deps), groups.components, tr,
                                   model_scale, guide_scale,
                                   Cost_model_deps(args._model_deps, tr.sum_vars)),
                       guide, tr, guide_scale),
                   LAMBDA acc :
                      [raised |-> acc.raised, site |-> acc.site, stage |-> "cost_terms",
                       traces |-> tr, components |-> groups.components,
                       cost_terms |-> acc.cost_terms]))))

NoCosts == [op |-> "none"]

CostInit == ecost = NoCosts

(***************************************************************************)
(* The state machine.  est is the estimator instance, ctor the constructor *)
(* call that made it, param_map the caller's parameter dict as the last    *)
(* call left it, call the record of the last loss call: its arguments, the *)
(* instance and the dict as they were before it, and its outcome.          *)
(***************************************************************************)
NoCall == [op |-> "none"]

NoCtor == [cls |-> "none"]

Identity(n) == [i \in 1..n |-> i]

MapOrders(self) ==
    IF self.vectorize_particles_fn = "callable" THEN Perms(self.num_particles)
    ELSE {Identity(self.num_particles)}

Init ==
    /\ est = NoEst
    /\ ctor = NoCtor
    /\ call = NoCall
    /\ param_map = EmptyDict
    /\ MFTInit
    /\ GraphInit
    /\ EnumInit
    /\ OptimInit
    /\ MultiInit
    /\ MeanFieldInit
    /\ RenyiInit
    /\ PartitionInit
    /\ PatchInit
    /\ EnumCallsInit
    /\ CostInit

Constructed(cls, args, instance) ==
    /\ call = NoCall
    /\ est = NoEst
    /\ ctor' = [cls |-> cls, args |-> args,
                raised |-> IF instance = NoEst THEN "ValueError" ELSE "none"]
    /\ est' = instance
    /\ UNCHANGED <<param_map, call>>
    /\ UNCHANGED unitVars

ConstructTrace ==
    \E n \in 1..MaxParticles, vp \in VectorizeValues, msg \in BOOLEAN, ss \in BOOLEAN :
        Constructed("Trace_ELBO",
                    [num_particles |-> n, vectorize_particles |-> vp,
                     multi_sample_guide |-> msg, sum_sites |-> ss],
                    Trace_ELBO_init(n, vp, msg, ss))

ConstructMeanField ==
    \E n \in 1..MaxParticles, vp \in VectorizeValues, ss \in BOOLEAN :
        Constructed("TraceMeanField_ELBO",
                    [num_particles |-> n, vectorize_particles |-> vp, sum_sites |-> ss],
                    TraceMeanField_ELBO_init(n, vp, ss))

ConstructRenyi ==
    \E alpha \in AlphaValues, given \in BOOLEAN, n \in 1..MaxParticles :
        /\ (~given) => n = 1
        /\ Constructed("RenyiELBO",
                       [alpha |-> alpha, given |-> given, num_particles |-> n],
                       RenyiELBO_init(alpha, given, n))

ConstructGraph ==
    \E n \in 1..MaxParticles, vp \in VectorizeValues :
        Constructed("TraceGraph_ELBO",
                    [num_particles |-> n, vectorize_particles |-> vp],
                    TraceGraph_ELBO_init(n, vp))

ConstructEnum ==
    \E n \in 1..MaxParticles, mpn \in PlateNestings, vp \in VectorizeValues :
        Constructed("TraceEnum_ELBO",
                    [num_particles |-> n, max_plate_nesting |-> mpn,
                     vectorize_particles |-> vp],
                    TraceEnum_ELBO_init(n, mpn, vp))

Called(op, key, pm, m, g, perm, repeat, r) ==
    /\ call' = [op |-> op, key |-> key, model |-> m, guide |-> g, perm |-> perm,
                repeat |-> repeat,
                est |-> est, param_map |-> pm, raised |-> r.raised,
                loss |-> r.loss, mutable_state |-> r.mutable_state,
                warned |-> r.warned, pkeys |-> r.pkeys, halves |-> r.halves,
                elbos |-> r.elbos, terms |-> r.terms]
    /\ est' = [est EXCEPT !.max_plate_nesting = r.max_plate_nesting]
    /\ param_map' = r.param_map
    /\ UNCHANGED ctor
    /\ UNCHANGED unitVars

CallInputs(m, g) ==
    est.cls = "TraceEnum_ELBO" => model_enumerated(Models[m], Guides[g]) = {}

\* the first call on an instance; Recall repeats it
CallLoss ==
    /\ est # NoEst
    /\ call = NoCall
    /\ \E key \in TopKeys, pm \in ParamMaps, m \in 1..Len(Models),
          g \in 1..Len(Guides), perm \in MapOrders(est) :
          /\ CallInputs(m, g)
          /\ \E r \in {loss(est, key, pm, Models[m], Guides[g], perm)} :
                Called("loss", key, pm, m, g, perm, FALSE, r)

CallLossWithMutableState ==
    /\ est # NoEst
    /\ call = NoCall
    /\ \E key \in TopKeys, pm \in ParamMaps, m \in 1..Len(Models),
          g \in 1..Len(Guides), perm \in MapOrders(est) :
          /\ CallInputs(m, g)
          /\ \E r \in {loss_with_mutable_state(est, key, pm,
                                                  Models[m], Guides[g], perm)} :
                Called("loss_with_mutable_state", key, pm, m, g, perm, FALSE, r)

\* the caller repeats its last call with the same arguments
Recall ==
    /\ call # NoCall
    /\ \E perm \in MapOrders(est) :
          \E r \in {IF call.op = "loss"
                    THEN loss(est, call.key, param_map,
                              Models[call.model], Guides[call.guide], perm)
                    ELSE loss_with_mutable_state(est, call.key, param_map,
                              Models[call.model], Guides[call.guide], perm)} :
              Called(call.op, call.key, param_map, call.model, call.guide, perm, TRUE, r)

Next ==
    \/ ConstructTrace
    \/ ConstructMeanField
    \/ ConstructRenyi
    \/ ConstructGraph
    \/ ConstructEnum
    \/ CallLoss
    \/ CallLossWithMutableState
    \/ Recall

Spec == Init /\ [][Next]_vars

(***************************************************************************)
(* The accumulator on its own.  mft is the MultiFrameTensor with the items *)
(* its add calls went through, in order; summed is the last sum_to call.   *)
(***************************************************************************)
\* the items a call to add went through before it returned or raised
RECURSIVE MFT_taken(_, _)
MFT_taken(self, items) ==
    IF items = <<>> THEN <<>>
    ELSE With(MFT_add_item(self, Head(items)), LAMBDA s :
            IF s.raised # "none" THEN <<>>
            ELSE <<Head(items)>> \o MFT_taken(s, Tail(items)))

Added(items) ==
    /\ mft.self.raised = "none"
    /\ Len(mft.hist) + Len(items) <= MaxItems
    /\ mft' = [self |-> MFT_add(mft.self, items),
               hist |-> mft.hist \o MFT_taken(mft.self, items)]
    /\ summed' = NoSum
    /\ UNCHANGED <<elboVars, graph, etrace, optim, multi, mfp, renyi, part, patched,
                   enumc, ecost>>

\* add(item)
AddOne == \E item \in Items : Added(<<item>>)

\* add(item1, item2), as the constructor called with two items is
AddTwo == \E i1 \in Items, i2 \in Items : Added(<<i1, i2>>)

\* sum_to(target); again tells that the accumulator was summed before
CallSumTo ==
    /\ mft.self.raised = "none"
    /\ \E target \in Targets :
          /\ summed' = [op |-> "sum_to", target |-> target,
                        result |-> sum_to(mft.self, target),
                        again |-> summed # NoSum]
          /\ mft' = [mft EXCEPT !.self = MFT_after_sum_to(mft.self, target)]
    /\ UNCHANGED <<elboVars, graph, etrace, optim, multi, mfp, renyi, part, patched,
                   enumc, ecost>>

MFTNext ==
    \/ AddOne
    \/ AddTwo
    \/ CallSumTo

SpecMFT == Init /\ [][MFTNext]_vars

(***************************************************************************)
(* The particle of TraceGraph_ELBO on its own: graph is the last particle  *)
(* evaluated, with the traces and dependencies it was given.               *)
(***************************************************************************)
GraphParticle ==
    /\ graph = NoParticle
    /\ \E p \in 1..Len(GraphPlates), rs \in [GraphLatents -> BOOLEAN] :
          \E model_deps \in [{"z", "w", "x"} ->
                                SUBSET nonreparam(Graph_guide_trace(GraphPlates[p], rs))],
             guide_deps \in [GraphLatents ->
                                SUBSET nonreparam(Graph_guide_trace(GraphPlates[p], rs))] :
             graph' = [op |-> "single_particle_elbo",
                       model_trace |-> Graph_model_trace(GraphPlates[p]),
                       guide_trace |-> Graph_guide_trace(GraphPlates[p], rs),
                       model_deps |-> model_deps,
                       guide_deps |-> guide_deps,
                       result |-> Graph_elbo_terms(Graph_model_trace(GraphPlates[p]),
                                                   Graph_guide_trace(GraphPlates[p], rs),
                                                   model_deps, guide_deps)]
    /\ UNCHANGED <<elboVars, mftVars, etrace, optim, multi, mfp, renyi, part, patched,
                   enumc, ecost>>

GraphNext == GraphParticle

SpecGraph == Init /\ [][GraphNext]_vars

(***************************************************************************)
(* get_importance_trace_enum on its own: etrace is its last call.          *)
(***************************************************************************)
TraceEnum ==
    /\ etrace = NoTraces
    /\ \E o \in 1..Len(EnumModelOrders), analytic \in SUBSET {"z", "d"},
          names \in EnumGuides, kl_impl \in BOOLEAN :
          \E dz \in SUBSET {"w", "d"}, dd \in SUBSET {"w", "d"},
             gz \in SUBSET {"z"}, gw \in SUBSET {"z", "w"} :
             With([model_trace |-> Enum_model_trace(EnumModelOrders[o], analytic),
                   guide_trace |-> Enum_guide_trace(names),
                   model_deps |-> [n \in {"z", "w", "d", "x"} |->
                                     IF n = "z" THEN dz ELSE IF n = "d" THEN dd ELSE {}],
                   guide_deps |-> [n \in Enum_names(Enum_guide_trace(names)) |->
                                     IF n = "z" THEN gz ELSE IF n = "w" THEN gw ELSE {}],
                   kl_impl |-> kl_impl],
                  LAMBDA args :
                     etrace' = [op |-> "get_importance_trace_enum", args |-> args,
                                result |-> get_importance_trace_enum(
                                              args.model_trace, args.guide_trace,
                                              args.model_deps, args.guide_deps, args.kl_impl)])
    /\ UNCHANGED <<elboVars, mftVars, graph, optim, multi, mfp, renyi, part, patched,
                   enumc, ecost>>

EnumNext == TraceEnum

SpecEnum == Init /\ [][EnumNext]_vars

(***************************************************************************)
(* The optimizer on its own: optim is the optimizer, its state as the last *)
(* call left it and as it was before, the objective's outputs of that      *)
(* call, and the calls made so far, all and with finite outputs.           *)
(***************************************************************************)
OptimCreate ==
    /\ optim = NoOptim
    /\ \E uwv \in BOOLEAN :
          optim' = [op |-> "init", self |-> [update_with_value |-> uwv],
                    state |-> Optim_init(<<>>), prev |-> Optim_init(<<>>),
                    out |-> Finite(0), fn_out |-> Finite(0),
                    grads |-> [j \in 1..2 |-> Finite(1)],
                    steps |-> 0, finite_steps |-> 0]
    /\ UNCHANGED <<elboVars, mftVars, graph, etrace, multi, mfp, renyi, part, patched,
                   enumc, ecost>>

StableUpdate ==
    /\ optim # NoOptim
    /\ optim.steps < MaxSteps
    /\ \E out \in OptimValues, grads \in OptimGrads :
          \E r \in {eval_and_stable_update(optim.self, out, grads, optim.state)} :
             optim' = [optim EXCEPT !.op = "eval_and_stable_update",
                                    !.state = r.state, !.prev = optim.state,
                                    !.out = r.out, !.fn_out = out, !.grads = grads,
                                    !.steps = @ + 1,
                                    !.finite_steps =
                                        IF jnp_isfinite(out)
                                           /\ \A j \in 1..2 : jnp_isfinite(grads[j])
                                        THEN @ + 1 ELSE @]
    /\ UNCHANGED <<elboVars, mftVars, graph, etrace, multi, mfp, renyi, part, patched,
                   enumc, ecost>>

OptimNext ==
    \/ OptimCreate
    \/ StableUpdate

SpecOptim == Init /\ [][OptimNext]_vars

(***************************************************************************)
(* The multi-sample particle on its own: multi is the last particle, with  *)
(* the guide trace it made and what its multi-sample branch did.           *)
(***************************************************************************)
MultiParticle ==
    /\ multi = NoMulti
    /\ \E key \in TopKeys, pm \in ParamMaps, m \in 1..Len(Models),
          g \in 1..Len(MultiGuides), ss \in BOOLEAN :
          With(get_trace(MultiGuides[g], split(key, 2)[2], EmptyDict, pm),
               LAMBDA guide_trace :
                  multi' = [op |-> "single_particle_elbo", model |-> m, guide |-> g,
                            guide_trace |-> guide_trace,
                            result |-> Trace_single_particle_elbo(
                                          Trace_ELBO_init(1, PyTrue, TRUE, ss),
                                          key, pm, Models[m], MultiGuides[g]),
                            branch |-> Trace_multi_sample_log_probs(
                                          Models[m], guide_trace, split(key, 2)[1],
                                          Update(pm, mutable_sites(guide_trace)))])
    /\ UNCHANGED <<elboVars, mftVars, graph, etrace, optim, mfp, renyi, part, patched,
                   enumc, ecost>>

MultiNext == MultiParticle

SpecMulti == Init /\ [][MultiNext]_vars

(***************************************************************************)
(* The mean-field particle on its own: mfp is the last particle, with the  *)
(* traces it made and what _check_mean_field_requirement did on them.      *)
(***************************************************************************)
MeanFieldParticle ==
    /\ mfp = NoMeanField
    /\ \E key \in TopKeys, pm \in ParamMaps, m \in 1..Len(MeanFieldModels),
          g \in 1..Len(MeanFieldGuides), ss \in BOOLEAN :
          With(get_trace(MeanFieldGuides[g], split(key, 2)[2], EmptyDict, pm),
               LAMBDA guide_trace :
          With(get_trace(MeanFieldModels[m], split(key, 2)[1],
                         replay_values(guide_trace),
                         Update(pm, mutable_sites(guide_trace))),
               LAMBDA model_trace :
                  mfp' = [op |-> "single_particle_elbo", model |-> m, guide |-> g,
                          sum_sites |-> ss,
                          guide_trace |-> guide_trace, model_trace |-> model_trace,
                          check |-> _check_mean_field_requirement(model_trace, guide_trace),
                          result |-> MeanField_single_particle_elbo(
                                        TraceMeanField_ELBO_init(1, PyTrue, ss),
                                        key, pm, MeanFieldModels[m], MeanFieldGuides[g])]))
    /\ UNCHANGED <<elboVars, mftVars, graph, etrace, optim, multi, renyi, part, patched,
                   enumc, ecost>>

MeanFieldNext == MeanFieldParticle

SpecMeanField == Init /\ [][MeanFieldNext]_vars

(***************************************************************************)
(* RenyiELBO.loss on its own: renyi is the last call, with the traces of   *)
(* its particles.                                                          *)
(***************************************************************************)
RenyiLoss ==
    /\ renyi = NoRenyi
    /\ \E layout \in 1..Len(RenyiLayouts), alpha \in RenyiAlphas,
          num_particles \in 1..MaxParticles :
       \E seeds \in [1..num_particles -> 0..MaxSeed] :
          With([i \in 1..num_particles |-> Renyi_model_trace(RenyiLayouts[layout], seeds[i])],
               LAMBDA model_traces :
          With([i \in 1..num_particles |-> Renyi_guide_trace(RenyiLayouts[layout], seeds[i])],
               LAMBDA guide_traces :
          With([i \in 1..num_particles |-> Renyi_particle(model_traces[i], guide_traces[i])],
               LAMBDA particles :
                  renyi' = [op |-> "loss", layout |-> layout, alpha |-> alpha,
                            num_particles |-> num_particles,
                            model_traces |-> model_traces, guide_traces |-> guide_traces,
                            particles |-> particles,
                            result |-> Renyi_loss(alpha, num_particles, particles)])))
    /\ UNCHANGED <<elboVars, mftVars, graph, etrace, optim, multi, mfp, part, patched,
                   enumc, ecost>>

RenyiNext == RenyiLoss

SpecRenyi == Init /\ [][RenyiNext]_vars

(***************************************************************************)
(* _partition on its own: part is the last call.                           *)
(***************************************************************************)
Partition ==
    /\ part = NoPartition
    /\ \E keys \in PartitionKeyOrders, sum_vars \in SUBSET PartitionDimSet,
          reversed \in BOOLEAN :
       \E deps \in [1..Len(keys) -> SUBSET PartitionDimSet] :
          With([i \in 1..Len(keys) |->
                   [k |-> keys[i], v |-> PartitionIter(deps[i], reversed)]],
               LAMBDA model_sum_deps :
                  part' = [op |-> "_partition", model_sum_deps |-> model_sum_deps,
                           sum_vars |-> sum_vars,
                           result |-> _partition(model_sum_deps, sum_vars)])
    /\ UNCHANGED <<elboVars, mftVars, graph, etrace, optim, multi, mfp, renyi, patched,
                   enumc, ecost>>

PartitionNext == Partition

SpecPartition == Init /\ [][PartitionNext]_vars

(***************************************************************************)
(* patch_dependency on its own: patched holds the functions, the module's  *)
(* attributes, the decorators made and the patches applied so far.         *)
(***************************************************************************)
PatchDependency ==
    /\ Len(patched.decorators) < MaxPatches
    /\ \E target \in PatchTargets : patched' = patch_dependency(patched, target)
    /\ UNCHANGED <<elboVars, mftVars, graph, etrace, optim, multi, mfp, renyi, part,
                   enumc, ecost>>

Decorate ==
    /\ Len(patched.applied) < MaxPatches
    /\ \E i \in 1..Len(patched.decorators), new_fn \in PatchFunctions :
          patched' = patch_decorator(patched, patched.decorators[i], new_fn)
    /\ UNCHANGED <<elboVars, mftVars, graph, etrace, optim, multi, mfp, renyi, part,
                   enumc, ecost>>

PatchNext ==
    \/ PatchDependency
    \/ Decorate

SpecPatch == Init /\ [][PatchNext]_vars

(***************************************************************************)
(* TraceEnum_ELBO over several calls: enumc holds the instance, the depth  *)
(* it was constructed with and, for each loss call, the programs, the      *)
(* depth found on the instance and the depth the call worked with.         *)
(***************************************************************************)
EnumConstruct ==
    /\ enumc.est = NoEst
    /\ \E n \in 1..MaxParticles, mpn \in PlateNestings :
          enumc' = [est |-> TraceEnum_ELBO_init(n, mpn, PyTrue),
                    max_plate_nesting |-> mpn, calls |-> <<>>]
    /\ UNCHANGED <<elboVars, mftVars, graph, etrace, optim, multi, mfp, renyi, part,
                   patched, ecost>>

EnumLoss ==
    /\ enumc.est # NoEst
    /\ Len(enumc.calls) < MaxCalls
    /\ \E key \in TopKeys, pm \in ParamMaps, m \in 1..Len(Models), g \in 1..Len(Guides) :
          /\ model_enumerated(Models[m], Guides[g]) = {}
          /\ \E r \in {TraceEnum_ELBO_loss(enumc.est, key, pm, Models[m], Guides[g],
                                           Identity(enumc.est.num_particles))} :
                enumc' = [enumc EXCEPT
                            !.est.max_plate_nesting = r.max_plate_nesting,
                            !.calls = Append(@, [model |-> m, guide |-> g,
                                                 found |-> enumc.est.max_plate_nesting,
                                                 used |-> r.max_plate_nesting,
                                                 raised |-> r.raised])]
    /\ UNCHANGED <<elboVars, mftVars, graph, etrace, optim, multi, mfp, renyi, part,
                   patched, ecost>>

EnumCallsNext ==
    \/ EnumConstruct
    \/ EnumLoss

SpecEnumCalls == Init /\ [][EnumCallsNext]_vars

(***************************************************************************)
(* The cost terms on their own: ecost is the last gathering and its        *)
(* inputs.  An array scale of z is the same array in model and guide.      *)
(***************************************************************************)
GatherCosts ==
    /\ ecost = NoCosts
    /\ \E o \in 1..Len(CostModelOrders), analytic \in SUBSET {"z"}, guide \in CostGuides,
          model_scale \in [{"d", "z", "x"} -> CostScales],
          guide_z \in CostScales :
       \E parents \in [{"d", "z", "x"} -> SUBSET {"d", "z"}] :
          /\ \A n \in {"d", "z", "x"} : parents[n] \subseteq CostEarlier(CostModelOrders[o], n)
          /\ "jnp.ndarray" \in {model_scale["z"].t, guide_z.t} => guide_z = model_scale["z"]
          /\ With([n \in {"z", "u"} |-> IF n = "u" THEN CostNone ELSE guide_z],
                  LAMBDA guide_scale :
                     ecost' = [op |-> "single_particle_elbo",
                               order |-> CostModelOrders[o], analytic |-> analytic,
                               guide |-> guide, parents |-> parents,
                               model_scale |-> model_scale, guide_scale |-> guide_scale,
                               result |-> Cost_terms(CostModelOrders[o], analytic, guide,
                                                     parents, model_scale, guide_scale)])
    /\ UNCHANGED <<elboVars, mftVars, graph, etrace, optim, multi, mfp, renyi, part, patched,
                   enumc>>

CostNext == GatherCosts

SpecCosts == Init /\ [][CostNext]_vars

(***************************************************************************)
(* Properties.                                                             *)
(***************************************************************************)
IsCall == call.op # "none"

Returns == IsCall /\ call.raised = "none"

CallModel == Models[call.model]

CallGuide == Guides[call.guide]

MutableStateClasses == {"Trace_ELBO", "TraceMeanField_ELBO"}

MeanClasses ==
    {"Trace_ELBO", "TraceMeanField_ELBO", "TraceGraph_ELBO", "TraceEnum_ELBO"}

\* the mutable sites of either program
TracedMutable == NamesOf(CallGuide, "mutable") \cup NamesOf(CallModel, "mutable")

\* the mutable sites a particle collects into mutable_params
CollectedMutable ==
    NamesOf(CallGuide, "mutable")
        \cup (IF call.est.cls = "Trace_ELBO" /\ call.est.multi_sample_guide
              THEN {} ELSE NamesOf(CallModel, "mutable"))

RECURSIVE SumTo(_, _)
SumTo(f, n) == IF n = 0 THEN 0 ELSE f[n] + SumTo(f, n - 1)

Leaf(t, name) == IF t.kind = "array" THEN t.v ELSE t.v[name]

LeafNames(t) == IF t.kind = "dict" THEN DOMAIN t.v ELSE {"_"}

\* C1: a Trace_ELBO call, in either guide mode, whose guide trace has a sample
\* site whose name is absent from the model trace raises instead of returning
C1_GuideOnlySiteRaises ==
    (/\ IsCall
     /\ call.est.cls = "Trace_ELBO"
     /\ NamesOf(CallGuide, "sample") \ TraceNames(CallModel) # {})
        => call.raised # "none"

C3_TraceParticleElbo ==
    (Returns /\ call.est.cls = "Trace_ELBO")
        => \A i \in 1..Len(call.elbos) :
              LET m == call.terms[i].model
                  g == call.terms[i].guide
                  e == call.elbos[i]
              IN IF call.est.sum_sites
                 THEN /\ e.kind = "array"
                      /\ e.v = SetSum(m, DOMAIN m) - SetSum(g, DOMAIN g)
                 ELSE /\ e.kind = "dict"
                      /\ DOMAIN e.v = (DOMAIN m) \cup (DOMAIN g)
                      /\ \A n \in DOMAIN e.v :
                            e.v[n] = (IF n \in DOMAIN m THEN m[n] ELSE 0)
                                       - (IF n \in DOMAIN g THEN g[n] ELSE 0)

C3_Witness ==
    /\ Returns
    /\ call.est.cls = "Trace_ELBO"
    /\ ~call.est.sum_sites
    /\ (DOMAIN call.terms[1].model) \ (DOMAIN call.terms[1].guide) # {}
    /\ (DOMAIN call.terms[1].guide) \ (DOMAIN call.terms[1].model) # {}

\* C4: the loss is the negated ELBO of the one particle, run under the caller's
\* key, when num_particles = 1, and the negated arithmetic mean of the
\* particles' ELBOs (site by site for a mapping) when num_particles > 1
C4_NegatedMean ==
    (Returns /\ call.est.cls \in MeanClasses)
        => LET n == call.est.num_particles IN
           /\ Len(call.elbos) = n
           /\ Len(call.pkeys) = n
           /\ IF n = 1 THEN call.pkeys = <<call.key>>
              ELSE /\ Cardinality({call.pkeys[i] : i \in 1..n}) = n
                   /\ \A i \in 1..n : call.pkeys[i] # call.key
           /\ \A name \in LeafNames(call.loss) :
                 Leaf(call.loss, name) =
                     [num |-> -SumTo([i \in 1..n |-> Leaf(call.elbos[i], name)], n),
                      den |-> n]

C4_Witness ==
    /\ Returns
    /\ call.est.cls = "TraceGraph_ELBO"
    /\ call.est.num_particles > 1
    /\ call.elbos[1] # call.elbos[2]

\* C5: vectorize_particles that is neither callable nor True nor False makes
\* the constructor raise ValueError; else the map is the callable, the batched
\* map for True, the sequential map for False
C5_VectorizeParticles ==
    (ctor.cls \notin {"none", "RenyiELBO"})
        => LET vp == ctor.args.vectorize_particles IN
           IF vp.t = "callable" \/ vp.t = "bool"
           THEN /\ ctor.raised = "none"
                /\ est.cls = ctor.cls
                /\ est.vectorize_particles_fn =
                      (IF vp.t = "callable" THEN "callable"
                       ELSE IF vp.v = 1 THEN "_apply_vmap" ELSE "jax.lax.map")
           ELSE ctor.raised = "ValueError" /\ est = NoEst

C5_Witness ==
    /\ ctor.cls = "Trace_ELBO"
    /\ ctor.args.vectorize_particles = [t |-> "int", v |-> 1]
    /\ ctor.raised = "ValueError"

\* C6: RenyiELBO with alpha equal to 1 raises and leaves no estimator; any
\* other alpha constructs one, with num_particles 2 unless given
C6_RenyiAlpha ==
    ctor.cls = "RenyiELBO"
        => IF ctor.args.alpha.v = 1
           THEN ctor.raised = "ValueError" /\ est = NoEst
           ELSE /\ ctor.raised = "none"
                /\ est.cls = "RenyiELBO"
                /\ est.alpha = ctor.args.alpha
                /\ est.num_particles =
                      (IF ctor.args.given THEN ctor.args.num_particles ELSE 2)

C6_Witness ==
    /\ ctor.cls = "RenyiELBO"
    /\ ctor.args.alpha = [t |-> "float", v |-> 1]
    /\ ctor.raised = "ValueError"

\* C7: on Trace_ELBO and TraceMeanField_ELBO, loss returns the "loss" entry of
\* loss_with_mutable_state for the same arguments and raises whenever it raises
C7_LossIsLossEntry ==
    (IsCall /\ call.op = "loss" /\ call.est.cls \in MutableStateClasses)
        => LET r == loss_with_mutable_state(call.est, call.key, call.param_map,
                                            CallModel, CallGuide, call.perm)
           IN /\ call.raised = r.raised
              /\ call.loss = r.loss
              /\ call.mutable_state.isNone

C7_Witness ==
    /\ Returns
    /\ call.op = "loss"
    /\ call.est.cls = "TraceMeanField_ELBO"
    /\ TracedMutable # {}

\* C8 as stated: a call leaves the caller's param_map and every field of the
\* estimator instance as they were
C8_NoSideEffect ==
    IsCall => (param_map = call.param_map /\ est = call.est)

\* C8 amended: a call leaves param_map and every field of the instance as they
\* were, except that a loss call on a TraceEnum_ELBO whose max_plate_nesting is
\* unset stores the inferred depth there
C8_OnlyPlateNestingCached ==
    IsCall
        => /\ param_map = call.param_map
           /\ [est EXCEPT !.max_plate_nesting = call.est.max_plate_nesting] = call.est
           /\ est.max_plate_nesting # call.est.max_plate_nesting
                 => /\ call.est.cls = "TraceEnum_ELBO"
                    /\ call.op = "loss"
                    /\ call.est.max_plate_nesting = Inf

C8_Witness ==
    /\ Returns
    /\ call.est.cls = "TraceEnum_ELBO"
    /\ call.est.max_plate_nesting = Inf
    /\ est.max_plate_nesting # Inf

IsSumTo == summed.op = "sum_to"

SinglePair == Len(mft.hist) = 1 /\ mft.self.raised = "none"

Permuted(s, perm) == [i \in 1..Len(s) |-> s[perm[i]]]

\* C11: on an accumulator built from a single (stack, tensor) pair,
\* sum_to(stack) returns that tensor with the same shape and elements,
\* tensors with leading dimensions of size 1 included
C11_SumToOwnStackUnchanged ==
    (IsSumTo /\ SinglePair /\ summed.target = mft.hist[1].stack)
        => /\ summed.result.raised = "none"
           /\ summed.result.value = mft.hist[1].value

\* C12: sum_to with an empty target returns a rank-0 value, the sum of all
\* the elements of all the stored tensors (zero for an empty accumulator),
\* also when a stored tensor has dimensions that belong to none of its frames
C12_SumToEmptyIsScalarTotal ==
    (IsSumTo /\ summed.target = <<>>)
        => /\ summed.result.raised = "none"
           /\ summed.result.value =
                Scalar(SeqSum([i \in 1..Len(mft.hist) |->
                                  tensor_total(mft.hist[i].value)]))

\* C13: the items an accumulator was fed with give the same mapping from
\* frame set to tensor in every order and grouping, and stacks that list
\* the same frames in another order address one entry
C13_AddCommutes ==
    mft.self.raised = "none"
        => /\ \A perm \in Perms(Len(mft.hist)) :
                With(MFT_add(MFT_empty, Permuted(mft.hist, perm)), LAMBDA other :
                    other.raised = "none" /\ other.entries = mft.self.entries)
           /\ \A i \in 1..Len(mft.hist) :
                frozenset(mft.hist[i].stack) \in DOMAIN mft.self.entries

C13_Witness ==
    /\ mft.self.raised = "none"
    /\ Len(mft.hist) = 2
    /\ mft.hist[1].stack = <<FrameA, FrameB>>
    /\ mft.hist[2].stack = <<FrameB, FrameA>>
    /\ mft.hist[1].value.shape = <<1, 2>>
    /\ mft.hist[2].value.shape = <<2, 2>>
    /\ mft.hist[1].value.data # mft.hist[2].value.data
    /\ DOMAIN mft.self.entries = {{FrameA, FrameB}}

(***************************************************************************)
(* Properties of the TraceGraph_ELBO particle.                             *)
(***************************************************************************)
GraphReturned == graph.op # "none" /\ graph.result.raised = "none"

TraceTotal(trace) == SeqSum([i \in 1..Len(trace) |-> tensor_total(trace[i].log_prob)])

\* C14: the value of a TraceGraph_ELBO particle is the sum of the model's
\* sample-site log-probabilities minus the sum of the guide's, whatever
\* the sites depend on: the surrogate terms leave the value as it is, and
\* there is none when every guide site is reparameterizable
C14_GraphValue ==
    GraphReturned
        => /\ graph.result.elbo =
                TraceTotal(graph.model_trace) - TraceTotal(graph.guide_trace)
           /\ nonreparam(graph.guide_trace) = {}
                => graph.result.surrogates = EmptyDict

C14_Witness ==
    /\ GraphReturned
    /\ DOMAIN graph.result.surrogates = {"z", "w"}
    /\ \A n \in {"z", "w"} : graph.result.surrogates[n] # 0
    /\ graph.model_deps["x"] = {"z", "w"}
    /\ graph.guide_deps["w"] = {"z"}
    /\ graph.model_trace[3].cond_indep_stack = <<FrameB, FrameA>>

(***************************************************************************)
(* Properties of get_importance_trace_enum.                                *)
(***************************************************************************)
EnumCalled == etrace.op # "none"

\* the model sites before position i that the model enumerates: latent and
\* not sampled by the guide
EnumeratedBefore(i) ==
    {etrace.args.model_trace[j].name :
        j \in {k \in 1..(i - 1) :
                 /\ ~etrace.args.model_trace[k].is_observed
                 /\ etrace.args.model_trace[k].name
                        \notin Enum_names(etrace.args.guide_trace)}}

\* the guide sites, other than n, that depend on n
GuideDescendants(n) ==
    {m \in DOMAIN etrace.args.guide_deps : m # n /\ n \in etrace.args.guide_deps[m]}

AnalyticOk(i) ==
    With(etrace.args.model_trace[i].name, LAMBDA n :
        /\ etrace.args.model_deps[n] \cap GuideDescendants(n) = {}
        /\ etrace.args.model_deps[n] \cap EnumeratedBefore(i) = {}
        /\ n \in Enum_names(etrace.args.guide_trace))

AnalyticSites ==
    {i \in 1..Len(etrace.args.model_trace) : etrace.args.model_trace[i].kl = "analytic"}

AnalyticFailing == {i \in AnalyticSites : ~AnalyticOk(i)}

FirstFailing == CHOOSE i \in AnalyticFailing : \A j \in AnalyticFailing : i <= j

\* C15: an analytic KL factor is stored for a model site marked
\* kl = "analytic" only if its model dependencies are disjoint from its
\* descendants in the guide and from the variables enumerated so far and
\* its name is in the guide trace; when a marked site fails one of these
\* the call raises, naming the first such site unless an earlier marked
\* site has no KL implementation, and returns no traces
C15_AnalyticKLPreconditions ==
    EnumCalled
        => /\ \A i \in AnalyticSites :
                etrace.args.model_trace[i].name \in etrace.result.kl => AnalyticOk(i)
           /\ AnalyticFailing # {}
                => /\ etrace.result.raised \in {"AssertionError", "NotImplementedError"}
                   /\ etrace.result.raised = "AssertionError"
                        => etrace.result.site =
                             etrace.args.model_trace[FirstFailing].name
                   /\ etrace.args.kl_impl => etrace.result.raised = "AssertionError"

C15_Witness ==
    /\ EnumCalled
    /\ etrace.result.raised = "AssertionError"
    /\ etrace.result.site = "z"
    /\ etrace.result.kl = {}
    /\ etrace.args.model_trace[1].name = "d"
    /\ etrace.args.model_deps["z"] = {"d"}
    /\ etrace.args.guide_deps = [n \in {"z", "w"} |-> {}]
    /\ AnalyticSites = {2}

(***************************************************************************)
(* Properties of the optimizer.                                            *)
(***************************************************************************)
StableStep == optim.op = "eval_and_stable_update"

AllFinite ==
    jnp_isfinite(optim.fn_out) /\ \A j \in DOMAIN optim.grads : jnp_isfinite(optim.grads[j])

\* C16: eval_and_stable_update returns the state it was given and the
\* objective nan when the objective's value or an entry of its gradients
\* is not finite; otherwise the inner state is updated and the step
\* counter grows by one.  From init the counter is the number of calls
\* whose value and gradients were finite
C16_StableUpdate ==
    /\ StableStep /\ ~AllFinite => optim.state = optim.prev /\ optim.out = NaN
    /\ StableStep /\ AllFinite
            => /\ optim.state.i = optim.prev.i + 1
               /\ Len(optim.state.opt_state) = Len(optim.prev.opt_state) + 1
               /\ optim.state.opt_state[Len(optim.state.opt_state)].g = optim.grads
               /\ optim.out = optim.fn_out
    /\ optim # NoOptim => optim.state.i = optim.finite_steps

C16_Witness ==
    /\ StableStep
    /\ optim.steps = 2
    /\ optim.finite_steps = 1
    /\ optim.state.i = 1
    /\ jnp_isfinite(optim.fn_out)
    /\ optim.grads = <<Finite(1), NaN>>
    /\ optim.out = NaN

(***************************************************************************)
(* Properties of the multi-sample particle.                                *)
(***************************************************************************)
MultiCalled == multi.op # "none"

GuideSamples == {j \in 1..Len(multi.guide_trace) : multi.guide_trace[j].type = "sample"}

FirstGuideSample == CHOOSE j \in GuideSamples : \A k \in GuideSamples : j <= k

\* C17: with multi_sample_guide a guide trace without a sample site makes
\* the particle raise ValueError with the model never evaluated; otherwise
\* the number of guide samples is the leading size of the first sample
\* site of the guide trace, and the model is evaluated that many times
\* when the particle returns
C17_GuideSamples ==
    MultiCalled
        => /\ GuideSamples = {}
                => /\ multi.result.raised = "ValueError"
                   /\ multi.branch.model_runs = 0
           /\ (GuideSamples # {} /\ multi.guide_trace[FirstGuideSample].shape # <<>>)
                => /\ multi.branch.num_guide_samples =
                        multi.guide_trace[FirstGuideSample].shape[1]
                   /\ multi.result.raised = "none"
                        => multi.branch.model_runs = multi.branch.num_guide_samples

C17_Witness ==
    /\ MultiCalled
    /\ Len(multi.guide_trace) = 2
    /\ multi.guide_trace[1].shape = <<1>>
    /\ multi.guide_trace[2].shape = <<2>>
    /\ multi.branch.num_guide_samples = 1

(***************************************************************************)
(* Properties of the mean-field particle.                                  *)
(***************************************************************************)
MeanFieldCalled == mfp.op # "none"

MeanFieldReturned == MeanFieldCalled /\ mfp.result.raised = "none"

MFModelSamples == {j \in 1..Len(mfp.model_trace) : mfp.model_trace[j].type = "sample"}

MFGuideSamples == {j \in 1..Len(mfp.guide_trace) : mfp.guide_trace[j].type = "sample"}

MFGuideSite(name) ==
    mfp.guide_trace[CHOOSE j \in 1..Len(mfp.guide_trace) : mfp.guide_trace[j].name = name]

MFGuideOnly ==
    {j \in MFGuideSamples :
        \A k \in 1..Len(mfp.model_trace) :
            mfp.model_trace[k].name # mfp.guide_trace[j].name}

HasKL(j) ==
    kl_divergence(MFGuideSite(mfp.model_trace[j].name).fn,
                  mfp.model_trace[j].fn).implemented

\* the term of the model sample site at position j
MFModelTerm(j) ==
    With(mfp.model_trace[j], LAMBDA p :
        IF p.is_observed THEN p.scale * p.log_prob
        ELSE With(MFGuideSite(p.name), LAMBDA q :
                IF HasKL(j) THEN -(q.scale * kl_divergence(q.fn, p.fn).v)
                ELSE p.scale * p.log_prob - q.scale * q.log_prob))

MFExpected ==
    [name \in {mfp.model_trace[j].name : j \in MFModelSamples}
              \cup {mfp.guide_trace[j].name : j \in MFGuideOnly} |->
        IF \E j \in MFModelSamples : mfp.model_trace[j].name = name
        THEN MFModelTerm(CHOOSE j \in MFModelSamples : mfp.model_trace[j].name = name)
        ELSE -(MFGuideSite(name).scale * MFGuideSite(name).log_prob)]

\* C18: a TraceMeanField_ELBO particle has one term per model sample site:
\* the scaled log-density of an observed site; for a latent site the
\* negated scaled KL of guide against model when it has a closed form,
\* else model minus guide log-density for that site alone; and the negated
\* log-density of each guide sample site the model does not have
C18_MeanFieldTerms ==
    MeanFieldReturned
        => IF mfp.sum_sites
           THEN mfp.result.elbo = Array(SetSum(MFExpected, DOMAIN MFExpected))
           ELSE mfp.result.elbo = Dict(MFExpected)

C18_Witness ==
    /\ MeanFieldReturned
    /\ ~mfp.sum_sites
    /\ DOMAIN mfp.result.elbo.v = {"z", "y", "x", "w"}
    /\ \E j \in MFModelSamples : mfp.model_trace[j].name = "z" /\ HasKL(j)
    /\ \E j \in MFModelSamples : mfp.model_trace[j].name = "y" /\ ~HasKL(j)
    /\ mfp.result.elbo.v["z"] = -4
    /\ mfp.result.elbo.v["w"] # 0

SharedNames(trace, other) ==
    SelectSeq([j \in 1..Len(trace) |->
                  IF trace[j].type = "sample"
                     /\ \E k \in 1..Len(other) : other[k].name = trace[j].name
                  THEN trace[j].name ELSE ""],
              LAMBDA n : n # "")

\* C19: _check_mean_field_requirement completes on every pair of traces,
\* with a warning exactly when the sample-site names shared with the other
\* trace come in another order in the model than in the guide
C19_CheckNeverRaises ==
    MeanFieldCalled
        => /\ mfp.check.raised = "none"
           /\ mfp.check.warned # {}
                <=> SharedNames(mfp.model_trace, mfp.guide_trace)
                        # SharedNames(mfp.guide_trace, mfp.model_trace)

(***************************************************************************)
(* Properties of RenyiELBO on sites in plates.                             *)
(***************************************************************************)
RenyiReturned == renyi.op # "none" /\ renyi.result.raised = "none"

\* the plates common to all the sample sites of the model
RenyiCommon ==
    {f \in {FrameA, FrameB} :
        \A j \in 1..Len(renyi.model_traces[1]) :
            renyi.model_traces[1][j].type = "sample"
                => \E k \in 1..Len(renyi.model_traces[1][j].cond_indep_stack) :
                      renyi.model_traces[1][j].cond_indep_stack[k] = f}

RenyiCommonScale ==
    (IF FrameA \in RenyiCommon THEN RenyiLayouts[renyi.layout].sizes.a \div 2 ELSE 1)
        * (IF FrameB \in RenyiCommon THEN RenyiLayouts[renyi.layout].sizes.b \div 2 ELSE 1)

\* the elements of a site's log-density that lie in a cell of the common plates
RenyiInCell(site, cell) ==
    {idx \in DOMAIN site.log_prob.data :
        /\ FrameA \in RenyiCommon => idx[Len(idx)] = cell[Len(cell)]
        /\ FrameB \in RenyiCommon => idx[Len(idx) - 1] = cell[1]}

RenyiTraceAt(tr, cell) ==
    SeqSum([j \in 1..Len(tr) |->
               IF tr[j].type = "sample"
               THEN SetSum(tr[j].log_prob.data, RenyiInCell(tr[j], cell))
               ELSE 0])

\* the log-ratio of particle i in a cell, without the common scale
RenyiLogRatio(i, cell) ==
    (RenyiTraceAt(renyi.model_traces[i], cell) - RenyiTraceAt(renyi.guide_traces[i], cell))
        \div RenyiCommonScale

RenyiCells == Idx([k \in 1..Cardinality(RenyiCommon) |-> 2])

\* C20: the loss of RenyiELBO is the negated Renyi value (logsumexp over the
\* particles of (1 - alpha) times the log-ratio, minus log num_particles,
\* over 1 - alpha) of each cell of the plates common to all sites, summed
\* over the cells and multiplied once by the common scale that was divided
\* out of the particles; nothing of the importance-weighted term is left
C20_RenyiLossValue ==
    RenyiReturned
        => /\ renyi.result.loss.scaled_by = RenyiCommonScale
           /\ DOMAIN renyi.result.loss.sum_of = RenyiCells
           /\ \A cell \in RenyiCells :
                 renyi.result.loss.sum_of[cell]
                    = [renyi |-> [lse |-> logsumexp([i \in 1..renyi.num_particles |->
                                            (1 - renyi.alpha) * RenyiLogRatio(i, cell)]),
                                  n |-> renyi.num_particles,
                                  div |-> 1 - renyi.alpha],
                       times |-> -1,
                       plus |-> Frac(0, 1)]

C20_Witness ==
    /\ RenyiReturned
    /\ renyi.num_particles = 2
    /\ renyi.model_traces[1] # renyi.model_traces[2]
    /\ renyi.result.loss.scaled_by = 2
    /\ Cardinality(RenyiCommon) = 1
    /\ \E j \in 1..Len(renyi.model_traces[1]) :
          /\ renyi.model_traces[1][j].type = "sample"
          /\ Len(renyi.model_traces[1][j].cond_indep_stack) = 2
    /\ \E cell \in RenyiCells : renyi.result.loss.sum_of[cell].renyi.lse.sum > 2

RenyiFrames == {FrameA, FrameB}

RenyiSampled == renyi.op # "none" /\ RenyiLayouts[renyi.layout].sampled

\* the plates some sample site of the model is in
RenyiUsed ==
    {f \in RenyiFrames :
        \E j \in 1..Len(renyi.model_traces[1]) :
            /\ renyi.model_traces[1][j].type = "sample"
            /\ \E k \in 1..Len(renyi.model_traces[1][j].cond_indep_stack) :
                  renyi.model_traces[1][j].cond_indep_stack[k] = f}

RenyiSubsampled(f) == RenyiLayouts[renyi.layout].sizes[f.name] > f.size

RenyiLocalSubsampled == \E f \in RenyiUsed \ RenyiCommon : RenyiSubsampled(f)

\* C21: a RenyiELBO particle raises ValueError exactly when a plate that is
\* not common to all the model's sample sites is subsampled; when every
\* subsampled plate is common the particle returns and its scale is the
\* product of size / subsample size over the subsampled common plates
C21_RenyiSubsampling ==
    RenyiSampled
        => \A i \in 1..renyi.num_particles :
              IF RenyiLocalSubsampled
              THEN renyi.particles[i].raised = "ValueError"
              ELSE /\ renyi.particles[i].raised = "none"
                   /\ renyi.particles[i].scale = RenyiCommonScale

C21_Witness ==
    /\ RenyiSampled
    /\ ~RenyiLocalSubsampled
    /\ RenyiUsed \ RenyiCommon # {}
    /\ \E f \in RenyiCommon : RenyiSubsampled(f)
    /\ renyi.particles[1].raised = "none"
    /\ renyi.particles[1].scale = 2

\* C27: on a model trace without sample sites the RenyiELBO particle takes
\* the independent plates as empty and returns a zero log-ratio with scale
\* 1, without raising
C27_RenyiNoSampleSites ==
    renyi.op # "none" /\ ~RenyiLayouts[renyi.layout].sampled
        => \A i \in 1..renyi.num_particles :
              /\ renyi.particles[i].raised = "none"
              /\ renyi.particles[i].elbo = Scalar(0)
              /\ renyi.particles[i].scale = 1

(***************************************************************************)
(* Properties of _partition.                                               *)
(***************************************************************************)
PartitionCalled == part.op # "none"

PartKeys == od_keys(part.model_sum_deps)

PartDeps(f) == {od_get(part.model_sum_deps, f)[j] : j \in 1..Len(od_get(part.model_sum_deps, f))}

\* two factors that depend on a common variable of sum_vars
PartLinked(f, g) == PartDeps(f) \cap PartDeps(g) \cap part.sum_vars # {}

\* the factors reached from those of S by at most n links
RECURSIVE PartReach(_, _)
PartReach(S, n) ==
    IF n = 0 THEN S
    ELSE PartReach(S \cup {g \in PartKeys : \E f \in S : PartLinked(f, g)}, n - 1)

PartComponents == part.result.components

\* C22: _partition returns; its components are pairwise disjoint, every key
\* of model_sum_deps is a factor of exactly one component, every measure of
\* a component is in sum_vars and is a dependency of a factor of that
\* component, and the factors of a component are those connected to each
\* other in the graph of factors and sum variables
C22_PartitionComponents ==
    PartitionCalled
        => /\ part.result.raised = "none"
           /\ \A i, j \in 1..Len(PartComponents) :
                 i # j => /\ PartComponents[i].factors \cap PartComponents[j].factors = {}
                          /\ PartComponents[i].measures \cap PartComponents[j].measures = {}
           /\ \A f \in PartKeys :
                 Cardinality({i \in 1..Len(PartComponents) :
                                 f \in PartComponents[i].factors}) = 1
           /\ \A i \in 1..Len(PartComponents) :
                 /\ PartComponents[i].factors \subseteq PartKeys
                 /\ PartComponents[i].measures \subseteq part.sum_vars
                 /\ \A m \in PartComponents[i].measures :
                       \E f \in PartComponents[i].factors : m \in PartDeps(f)
                 /\ \A f \in PartComponents[i].factors :
                       /\ PartComponents[i].factors = PartReach({f}, Cardinality(PartKeys))
                       /\ PartDeps(f) \cap part.sum_vars \subseteq PartComponents[i].measures

C22_Witness ==
    /\ PartitionCalled
    /\ part.result.raised = "none"
    /\ Len(PartComponents) = 2
    /\ \E i \in 1..2 : /\ Cardinality(PartComponents[i].factors) = 2
                       /\ Cardinality(PartComponents[i].measures) = 2
    /\ \E f \in PartKeys : PartDeps(f) \ part.sum_vars # {}

\* C29: a component that _partition returns without measures has exactly
\* one factor
C29_UncontractedIsSingle ==
    PartitionCalled /\ part.result.raised = "none"
        => \A i \in 1..Len(PartComponents) :
              PartComponents[i].measures = {}
                  => Cardinality(PartComponents[i].factors) = 1

C29_Witness ==
    /\ PartitionCalled
    /\ part.result.raised = "none"
    /\ Len(PartComponents) = 3
    /\ Cardinality({i \in 1..3 : PartComponents[i].measures = {}}) = 2
    /\ \E i \in 1..3 : Cardinality(PartComponents[i].factors) = 1
                          /\ PartComponents[i].measures # {}

\* a step that is a call of sum_to
SumToStep == summed' # NoSum /\ mft'.hist = mft.hist

\* a step that is an add of one more item, which is the last of hist
AddStep == Len(mft'.hist) = Len(mft.hist) + 1 /\ mft'.self.raised = "none"

\* C28: sum_to leaves the accumulator as it was, with the same frame-set
\* keys and tensors, a sum_to repeated with the same target returns the
\* same result, and an add of (stack, value) changes only the entry keyed
\* by the frame set of stack
C28_SumToReadOnly ==
    [][/\ SumToStep => /\ mft'.self = mft.self
                       /\ (IsSumTo /\ summed'.target = summed.target)
                             => summed'.result = summed.result
       /\ AddStep =>
             With(frozenset(mft'.hist[Len(mft'.hist)].stack), LAMBDA key :
                /\ DOMAIN mft'.self.entries = DOMAIN mft.self.entries \cup {key}
                /\ \A k \in DOMAIN mft.self.entries \ {key} :
                      mft'.self.entries[k] = mft.self.entries[k])]_vars

C28_Witness ==
    /\ IsSumTo
    /\ summed.again
    /\ summed.result.raised = "none"
    /\ Len(mft.hist) = 2
    /\ Cardinality(DOMAIN mft.self.entries) = 2
    /\ \E k \in DOMAIN mft.self.entries :
          MFT_reduced(mft.self, k, summed.target) # mft.self.entries[k]

(***************************************************************************)
(* Properties of patch_dependency.                                         *)
(***************************************************************************)
PatchedNames == {patched.applied[i].name : i \in 1..Len(patched.applied)}

PatchOriginal(name) == IF name = "a" THEN "orig_a" ELSE "orig_b"

\* C30: after patches that were all applied to one target, the installed
\* function is the replacement applied last, its __name__ is the target's
\* attribute name and its _pyro_unpatched is the function that was
\* installed before the first patch
C30_PatchIdempotent ==
    \A name \in {"a", "b"} :
        PatchedNames = {name}
            => /\ patched.module[name] = patched.applied[Len(patched.applied)].new_fn
               /\ patched.fns[patched.module[name]].__name__ = name
               /\ patched.fns[patched.module[name]]._pyro_unpatched = PatchOriginal(name)

C30_Witness ==
    /\ PatchedNames = {"a"}
    /\ Len(patched.applied) = 3
    /\ patched.applied[1].new_fn = "f"
    /\ patched.applied[2].new_fn = "g"
    /\ patched.applied[3].new_fn = "f"
    /\ patched.fns["g"]._pyro_unpatched = "orig_a"
    /\ patched.module["a"] = "f"

(***************************************************************************)
(* Properties of TraceEnum_ELBO over several calls.                        *)
(***************************************************************************)
\* the largest rank of a sample site of a model and guide pair
ProgramRank(m, g) ==
    With(SelectSeq(Models[m] \o Guides[g], LAMBDA site : site.type = "sample"),
         LAMBDA sites : SeqMax([j \in 1..Len(sites) |-> Len(sites[j].shape)]))

\* C23: an instance constructed without max_plate_nesting infers the depth
\* in its first loss call and keeps it; every later call finds and uses
\* the stored depth, whatever its model and guide; a depth given at
\* construction is used by every call and stays
C23_DepthInferredOnce ==
    \A i \in 1..Len(enumc.calls) :
        IF enumc.max_plate_nesting = Inf
        THEN /\ enumc.calls[i].used
                    = ProgramRank(enumc.calls[1].model, enumc.calls[1].guide)
             /\ enumc.calls[i].found = Inf <=> i = 1
             /\ enumc.est.max_plate_nesting = enumc.calls[i].used
        ELSE /\ enumc.calls[i].used = enumc.max_plate_nesting
             /\ enumc.calls[i].found = enumc.max_plate_nesting
             /\ enumc.est.max_plate_nesting = enumc.max_plate_nesting

C23_Witness ==
    /\ enumc.max_plate_nesting = Inf
    /\ Len(enumc.calls) = 2
    /\ ProgramRank(enumc.calls[1].model, enumc.calls[1].guide) = 0
    /\ ProgramRank(enumc.calls[2].model, enumc.calls[2].guide) = 1
    /\ enumc.calls[2].used = 0
    /\ enumc.calls[2].raised = "none"

(***************************************************************************)
(* The cost terms of TraceEnum_ELBO.                                       *)
(***************************************************************************)
CostsGathered == ecost.op = "single_particle_elbo"

CostsReturned == CostsGathered /\ ecost.result.raised = "none"

\* the clusters were formed, so the loop over them was entered
CostsGrouped == CostsGathered /\ ecost.result.stage = "cost_terms"

CostGuideNames == {ecost.guide[i] : i \in 1..Len(ecost.guide)}

CostModelNames == {ecost.order[i] : i \in 1..Len(ecost.order)}

\* how many cost terms of one of the kinds hold the factor of name
CostCount(kinds, name) ==
    Cardinality({i \in 1..Len(ecost.result.cost_terms) :
                    /\ ecost.result.cost_terms[i].kind \in kinds
                    /\ name \in ecost.result.cost_terms[i].factors})

\* the sites of a cluster: its factors and its eliminated variables
CostClusterSites(c) == c.factors \cup c.measures

CostClusters ==
    {ecost.result.components[i] : i \in 1..Len(ecost.result.components)}

CostContracted == {c \in CostClusters : c.measures # {}}

CostHasArray(c) == \E n \in CostClusterSites(c) : ecost.model_scale[n].t = "jnp.ndarray"

\* the scales of the sites as numbers, None counted as 1.0
CostNumbers(c) ==
    {IF ecost.model_scale[n].t = "None" THEN 1 ELSE ecost.model_scale[n].v :
        n \in CostClusterSites(c)}

\* C24: in TraceEnum_ELBO, whenever a cluster with eliminated variables has
\* a site (factor or eliminated variable) whose scale is an array, or sites
\* whose scales (None counted as 1.0) are not all equal, the call raises;
\* otherwise, when the call returns, the cost of the cluster is one cost term
\* whose scale is the single common scale of its sites.
C24_ClusterScale ==
    CostsGrouped =>
        \A c \in CostContracted :
            /\ (CostHasArray(c) \/ Cardinality(CostNumbers(c)) # 1)
                  => ecost.result.raised # "none"
            /\ CostsReturned =>
                  \E i \in 1..Len(ecost.result.cost_terms) :
                     /\ ecost.result.cost_terms[i].kind = "contracted"
                     /\ ecost.result.cost_terms[i].factors = c.factors
                     /\ ecost.result.cost_terms[i].measures = c.measures
                     /\ ecost.result.cost_terms[i].scale.t = "float"
                     /\ CostNumbers(c) = {ecost.result.cost_terms[i].scale.v}

\* a cluster of two factors and eliminated variables was costed though the
\* scale of one site is None and that of another is 1.0
C24_Witness ==
    /\ CostsReturned
    /\ \E c \in CostContracted :
          /\ Cardinality(c.factors) = 2
          /\ \E n \in CostClusterSites(c) : ecost.model_scale[n] = CostNone
          /\ \E n \in CostClusterSites(c) : ecost.model_scale[n] = CostFloat(1)

\* C25: in the enumeration path every guide sample site for which no
\* analytic KL was recorded, guide-only sites included, is processed without
\* error and, when the call returns, has its negated log-density among the
\* cost terms.
C25_GuideOnlySite ==
    CostsGathered =>
        \A name \in CostGuideNames \ ecost.result.traces.kl :
            /\ ~(ecost.result.raised = "KeyError" /\ ecost.result.site = name)
            /\ CostsReturned => CostCount({"-logq"}, name) = 1

\* C26: in TraceEnum_ELBO no lookup of a factor of a latent site present in
\* both model and guide fails and, when the call returns, the site
\* contributes either one negated analytic-KL term and neither its model
\* log-probability nor its guide negated log-probability, or its model
\* log-probability (in one cost term) together with one guide negated
\* log-probability term and no analytic-KL term.
C26_KLOrLogProbs ==
    CostsGrouped =>
        \A name \in (CostModelNames \ {"x"}) \cap CostGuideNames :
            /\ ~(ecost.result.raised = "KeyError" /\ ecost.result.site = name)
            /\ CostsReturned =>
                  \/ /\ CostCount({"-kl"}, name) = 1
                     /\ CostCount({"log_prob", "contracted"}, name) = 0
                     /\ CostCount({"-logq"}, name) = 0
                  \/ /\ CostCount({"-kl"}, name) = 0
                     /\ CostCount({"log_prob", "contracted"}, name) = 1
                     /\ CostCount({"-logq"}, name) = 1

\* a call returned with the analytic KL of z next to the contracted cost of
\* x and d
C26_Witness ==
    /\ CostsReturned
    /\ "z" \in CostGuideNames
    /\ CostCount({"-kl"}, "z") = 1
    /\ CostContracted # {}

====
